---- MODULE Spec2Model ----
(***************************************************************************)
(* A model of luminix (src/src/main.rs): the viewport compositor           *)
(* (calculate_max_buffer_size, pan_img, zoom_img, pad_img, the redraw      *)
(* handler) and the GIF frame scheduler, as one state machine over the     *)
(* fields of App and the event loop's control flow.                        *)
(*                                                                         *)
(* The code computes sizes in f64 and crop rectangles in f32.  Both are    *)
(* modelled bit-exactly: a float is sign * man * 2^exp with man an         *)
(* arbitrary-precision natural, every operation is the exact result        *)
(* rounded to nearest-even at the type's precision (IEEE 754), and `as u32`*)
(* truncates toward zero.                                                  *)
(***************************************************************************)
EXTENDS Integers, Sequences, FiniteSets, TLC

(***************************************************************************)
(* Arbitrary-precision naturals: little-endian sequences of 15-bit limbs,  *)
(* no most-significant zero limb; <<>> is 0.                               *)
(***************************************************************************)
Pow2(n) == 2 ^ n

LimbBits == 15

Base == Pow2(LimbBits)

RECURSIVE BTrim(_)
BTrim(a) ==
    IF a = <<>> THEN <<>>
    ELSE IF a[Len(a)] = 0 THEN BTrim(SubSeq(a, 1, Len(a) - 1))
    ELSE a

RECURSIVE BFromNat(_)
BFromNat(n) ==
    IF n = 0 THEN <<>> ELSE <<n % Base>> \o BFromNat(n \div Base)

RECURSIVE BToNat(_)
BToNat(a) ==
    IF a = <<>> THEN 0 ELSE Head(a) + Base * BToNat(Tail(a))

Limb0(a) == IF a = <<>> THEN 0 ELSE Head(a)

Rest(a) == IF a = <<>> THEN <<>> ELSE Tail(a)

RECURSIVE BAddC(_, _, _)
BAddC(a, b, c) ==
    IF a = <<>> /\ b = <<>>
    THEN (IF c = 0 THEN <<>> ELSE <<c>>)
    ELSE LET x == Limb0(a) + Limb0(b) + c
         IN  <<x % Base>> \o BAddC(Rest(a), Rest(b), x \div Base)

BAdd(a, b) == BAddC(a, b, 0)

\* a - b - c for a >= b + c
RECURSIVE BSubC(_, _, _)
BSubC(a, b, c) ==
    IF a = <<>> THEN <<>>
    ELSE LET x == Head(a) - Limb0(b) - c
         IN  IF x < 0
             THEN <<x + Base>> \o BSubC(Tail(a), Rest(b), 1)
             ELSE <<x>> \o BSubC(Tail(a), Rest(b), 0)

BSub(a, b) == BTrim(BSubC(a, b, 0))

\* -1, 0, 1 as a < b, a = b, a > b
RECURSIVE BCmpFrom(_, _, _)
BCmpFrom(a, b, i) ==
    IF i = 0 THEN 0
    ELSE IF a[i] < b[i] THEN -1
    ELSE IF a[i] > b[i] THEN 1
    ELSE BCmpFrom(a, b, i - 1)

BCmp(a, b) ==
    IF Len(a) < Len(b) THEN -1
    ELSE IF Len(a) > Len(b) THEN 1
    ELSE BCmpFrom(a, b, Len(a))

\* a * d + c for a limb-sized d
RECURSIVE BMulSmall(_, _, _)
BMulSmall(a, d, c) ==
    IF a = <<>>
    THEN (IF c = 0 THEN <<>> ELSE <<c>>)
    ELSE LET x == Head(a) * d + c
         IN  <<x % Base>> \o BMulSmall(Tail(a), d, x \div Base)

RECURSIVE BMul(_, _)
BMul(a, b) ==
    IF a = <<>> \/ b = <<>> THEN <<>>
    ELSE LET hi == BMul(a, Tail(b))
         IN  BAdd(BMulSmall(a, Head(b), 0),
                  IF hi = <<>> THEN <<>> ELSE <<0>> \o hi)

BShl(a, k) ==
    IF a = <<>> THEN <<>>
    ELSE [i \in 1..(k \div LimbBits) |-> 0]
            \o BTrim(BMulSmall(a, Pow2(k % LimbBits), 0))

\* floor(a / 2^k)
BShr(a, k) ==
    LET q == k \div LimbBits
        r == k % LimbBits
        n == Len(a) - q
    IN  IF n <= 0 THEN <<>>
        ELSE BTrim([i \in 1..n |->
                (a[q + i] \div Pow2(r))
                + (IF i < n THEN (a[q + i + 1] % Pow2(r)) * Pow2(LimbBits - r)
                            ELSE 0)])

\* a mod 2^k = 0
BLowZero(a, k) ==
    LET q == k \div LimbBits
        r == k % LimbBits
    IN  /\ \A i \in 1..q : i > Len(a) \/ a[i] = 0
        /\ (q + 1 > Len(a) \/ a[q + 1] % Pow2(r) = 0)

\* bit k of a (bit 0 is the least significant)
BBit(a, k) ==
    LET q == k \div LimbBits
    IN  IF q + 1 > Len(a) THEN 0
        ELSE (a[q + 1] \div Pow2(k % LimbBits)) % 2

RECURSIVE BitLenSmall(_)
BitLenSmall(n) == IF n = 0 THEN 0 ELSE 1 + BitLenSmall(n \div 2)

BBitLen(a) ==
    IF a = <<>> THEN 0
    ELSE LimbBits * (Len(a) - 1) + BitLenSmall(a[Len(a)])

RECURSIVE TrailingZerosSmall(_)
TrailingZerosSmall(n) ==
    IF n % 2 = 1 THEN 0 ELSE 1 + TrailingZerosSmall(n \div 2)

\* the number of trailing zero bits of a # 0
RECURSIVE BTrailingZeros(_)
BTrailingZeros(a) ==
    IF Head(a) = 0 THEN LimbBits + BTrailingZeros(Tail(a))
    ELSE TrailingZerosSmall(Head(a))

\* One limb of long division by a divisor d < 2^29: bit by bit from the
\* limb's most significant bit, rem < d throughout.
RECURSIVE DivLimb(_, _, _, _, _)
DivLimb(rem, limb, d, i, q) ==
    IF i < 0 THEN [q |-> q, r |-> rem]
    ELSE LET x == 2 * rem + ((limb \div Pow2(i)) % 2)
         IN  IF x >= d THEN DivLimb(x - d, limb, d, i - 1, 2 * q + 1)
                       ELSE DivLimb(x, limb, d, i - 1, 2 * q)

\* [q |-> floor(a / d) (untrimmed), r |-> a mod d], limbs from the top down;
\* a divisor of one limb takes a whole limb of the dividend per step
RECURSIVE BDivFrom(_, _, _, _)
BDivFrom(a, d, i, rem) ==
    IF i = 0 THEN [q |-> <<>>, r |-> rem]
    ELSE LET s == IF d < Base
                  THEN [q |-> (rem * Base + a[i]) \div d, r |-> (rem * Base + a[i]) % d]
                  ELSE DivLimb(rem, a[i], d, LimbBits - 1, 0)
             t == BDivFrom(a, d, i - 1, s.r)
         IN  [q |-> t.q \o <<s.q>>, r |-> t.r]

BDivSmall(a, d) ==
    LET t == BDivFrom(a, d, Len(a), 0)
    IN  [q |-> BTrim(t.q), r |-> t.r]

(***************************************************************************)
(* Binary floating point.  A value is [sign, man, exp] = (-1)^sign * man * *)
(* 2^exp, canonical when man is odd (or man = <<>>, exp = 0 for zero).     *)
(* The values the code computes are far from the subnormal and overflow    *)
(* ranges, so only the precision p of the format enters.                   *)
(***************************************************************************)
F32Precision == 24

F64Precision == 53

FZero == [sign |-> 0, man |-> <<>>, exp |-> 0]

Canon(sign, man, exp) ==
    IF man = <<>> THEN [sign |-> sign, man |-> <<>>, exp |-> 0]
    ELSE LET tz == BTrailingZeros(man)
         IN  [sign |-> sign, man |-> BShr(man, tz), exp |-> exp + tz]

\* round to nearest, ties to even, at precision p
RoundP(p, sign, man, exp) ==
    LET n == BBitLen(man)
    IN  IF n <= p THEN Canon(sign, man, exp)
        ELSE LET s      == n - p
                 q      == BShr(man, s)
                 half   == BBit(man, s - 1) = 1
                 sticky == ~BLowZero(man, s - 1)
                 up     == half /\ (sticky \/ BBit(q, 0) = 1)
             IN  Canon(sign, IF up THEN BAddC(q, <<>>, 1) ELSE q, exp + s)

FNeg(a) == [a EXCEPT !.sign = 1 - a.sign]

\* the exact sum of two values, as an unrounded [sign, man, exp]
ExactAdd(a, b) ==
    LET e  == IF a.exp < b.exp THEN a.exp ELSE b.exp
        ma == BShl(a.man, a.exp - e)
        mb == BShl(b.man, b.exp - e)
        c  == BCmp(ma, mb)
    IN  IF a.man = <<>> THEN b
        ELSE IF b.man = <<>> THEN a
        ELSE IF a.sign = b.sign THEN [sign |-> a.sign, man |-> BAdd(ma, mb), exp |-> e]
        ELSE IF c = 0 THEN FZero
        ELSE IF c > 0 THEN [sign |-> a.sign, man |-> BSub(ma, mb), exp |-> e]
        ELSE [sign |-> b.sign, man |-> BSub(mb, ma), exp |-> e]

FAdd(p, a, b) ==
    LET s == ExactAdd(a, b) IN RoundP(p, s.sign, s.man, s.exp)

FSub(p, a, b) == FAdd(p, a, FNeg(b))

FMul(p, a, b) ==
    RoundP(p, (a.sign + b.sign) % 2, BMul(a.man, b.man), a.exp + b.exp)

\* a / b for b # 0 whose mantissa is below 2^29: exact when b is a power of
\* two, else the quotient to p + 3 or more bits with the remainder folded
\* into a sticky last bit, then rounded
FDiv(p, a, b) ==
    IF a.man = <<>> THEN [sign |-> (a.sign + b.sign) % 2, man |-> <<>>, exp |-> 0]
    ELSE IF b.man = <<1>>
    THEN [sign |-> (a.sign + b.sign) % 2, man |-> a.man, exp |-> a.exp - b.exp]
    ELSE LET d  == BToNat(b.man)
             k0 == p + 3 + BBitLen(b.man) - BBitLen(a.man)
             k  == IF k0 < 0 THEN 0 ELSE k0
             t  == BDivSmall(BShl(a.man, k), d)
             m  == BAddC(BShl(t.q, 1), <<>>, IF t.r = 0 THEN 0 ELSE 1)
         IN  RoundP(p, (a.sign + b.sign) % 2, m, a.exp - b.exp - k - 1)

\* -1, 0, 1 as a < b, a = b, a > b
FCmp(a, b) ==
    LET s == ExactAdd(a, FNeg(b))
    IN  IF s.man = <<>> THEN 0 ELSE IF s.sign = 1 THEN -1 ELSE 1

FLt(a, b) == FCmp(a, b) < 0

FGe(a, b) == FCmp(a, b) >= 0

\* f32::max / f32::min of two numbers
FMax(a, b) == IF FLt(a, b) THEN b ELSE a

FMin(a, b) == IF FLt(b, a) THEN b ELSE a

\* `n as f32`, `n as f64` for an integer n
FromInt(p, n) ==
    IF n < 0 THEN RoundP(p, 1, BFromNat(-n), 0) ELSE RoundP(p, 0, BFromNat(n), 0)

\* `x as u32`: truncation toward zero, negative values saturate to 0
AsU32(a) ==
    IF a.man = <<>> \/ a.sign = 1 THEN 0
    ELSE IF a.exp >= 0 THEN BToNat(BShl(a.man, a.exp))
    ELSE BToNat(BShr(a.man, -a.exp))

(***************************************************************************)
(* Size and PhotonImage.  A raster is its width, its height and its raw    *)
(* RGBA8 bytes (row-major, 4 bytes per pixel), as PhotonImage stores them. *)
(***************************************************************************)
Size(w, h) == [width |-> w, height |-> h]

PhotonImage(raw_pixels, width, height) ==
    [raw_pixels |-> raw_pixels, width |-> width, height |-> height]

\* byte ch of pixel (col, row) of img; bytes are numbered from 1
PixelByte(img, col, row, ch) ==
    img.raw_pixels[(row * img.width + col) * 4 + ch + 1]

\* The two exits of the comparison: the computed dimension, or the window
\* when it is 0.
fit_width_unguarded(window_width, window_height, new_width) ==
    Size(new_width, window_height)

fit_width(window_width, window_height, new_width) ==
    IF new_width = 0
    THEN Size(window_width, window_height)
    ELSE Size(new_width, window_height)

fit_height(window_width, window_height, new_height) ==
    IF new_height = 0
    THEN Size(window_width, window_height)
    ELSE Size(window_width, new_height)

\* fit_ratios using width / height for a wide image too
fit_ratios_one_ratio(window_width, window_height, window_width_f, window_height_f, img_width_f, img_height_f, img_ratio, window_ratio) ==
    IF FLt(img_ratio, window_ratio)
    THEN fit_width(window_width, window_height,
                   AsU32(FMul(F64Precision, img_ratio, window_height_f)))
    ELSE IF FLt(window_ratio, img_ratio)
    THEN fit_height(window_width, window_height,
                    AsU32(FMul(F64Precision, img_ratio, window_width_f)))
    ELSE Size(window_width, window_height)

\* fit_ratios with the two comparisons exchanged: it fits the width where
\* the height binds
fit_ratios_swapped(window_width, window_height, window_width_f, window_height_f, img_width_f, img_height_f, img_ratio, window_ratio) ==
    IF FLt(window_ratio, img_ratio)
    THEN fit_width(window_width, window_height,
                   AsU32(FMul(F64Precision, img_ratio, window_height_f)))
    ELSE IF FLt(img_ratio, window_ratio)
    THEN fit_height(window_width, window_height,
                    AsU32(FMul(F64Precision,
                               FDiv(F64Precision, img_height_f, img_width_f),
                               window_width_f)))
    ELSE Size(window_width, window_height)

\* The comparison of img_width_f / img_height_f (img_ratio) with
\* window_width_f / window_height_f (window_ratio) and the branch it picks.
fit_ratios(window_width, window_height, window_width_f, window_height_f, img_width_f, img_height_f, img_ratio, window_ratio) ==
    IF FLt(img_ratio, window_ratio)
    THEN fit_width(window_width, window_height,
                   AsU32(FMul(F64Precision, img_ratio, window_height_f)))
    ELSE IF FLt(window_ratio, img_ratio)
    THEN fit_height(window_width, window_height,
                    AsU32(FMul(F64Precision,
                               FDiv(F64Precision, img_height_f, img_width_f),
                               window_width_f)))
    ELSE Size(window_width, window_height)

calculate_max_buffer_size(window_width, window_height, img_size) ==
    IF img_size.width = 0 \/ img_size.height = 0
    THEN Size(window_width, window_height)
    ELSE fit_ratios(window_width, window_height,
                    FromInt(F64Precision, window_width),
                    FromInt(F64Precision, window_height),
                    FromInt(F64Precision, img_size.width),
                    FromInt(F64Precision, img_size.height),
                    FDiv(F64Precision, FromInt(F64Precision, img_size.width),
                                       FromInt(F64Precision, img_size.height)),
                    FDiv(F64Precision, FromInt(F64Precision, window_width),
                                       FromInt(F64Precision, window_height)))

\* The resize of fast_image_resize with ResizeAlg::Nearest: destination
\* pixel (col, row) takes the source pixel under its centre.  An empty
\* source or destination leaves the zero-filled destination untouched.
NearestIndex(i, src_len, dst_len) ==
    LET k == ((2 * i + 1) * src_len) \div (2 * dst_len)
    IN  IF k > src_len - 1 THEN src_len - 1 ELSE k

fast_resize_photon_img(img, new_img_size) ==
    LET width  == new_img_size.width
        height == new_img_size.height
    IN  PhotonImage(
            [i \in 1..(width * height * 4) |->
                IF img.width = 0 \/ img.height = 0 THEN 0
                ELSE PixelByte(img,
                        NearestIndex(((i - 1) \div 4) % width, img.width, width),
                        NearestIndex(((i - 1) \div 4) \div width, img.height, height),
                        (i - 1) % 4)],
            width, height)

\* The crop [neg_x, pos_x) x [neg_y, pos_y) of img, copied pixel for pixel
\* (a nearest-neighbour resize of the crop box onto a destination of the
\* same size).  Callers pass pos >= neg; the unsigned subtraction of the
\* code is checked by fast_crop_underflows.
fast_crop_underflows(pos_x, pos_y, neg_x, neg_y) == pos_x < neg_x \/ pos_y < neg_y

fast_crop(img, pos_x, pos_y, neg_x, neg_y) ==
    LET width  == pos_x - neg_x
        height == pos_y - neg_y
    IN  PhotonImage(
            [i \in 1..(width * height * 4) |->
                PixelByte(img,
                    neg_x + (((i - 1) \div 4) % width),
                    neg_y + (((i - 1) \div 4) \div width),
                    (i - 1) % 4)],
            width, height)

\* pad_img_sides copying one pixel too few of every row
pad_img_sides_short_rows(img, pad_left, pad_right, pad_top, pad_bottom) ==
    LET new_width  == img.width + pad_left + pad_right
        new_height == img.height + pad_top + pad_bottom
        src_width  == img.width
        src_height == img.height
        row(i)     == (i - 1) \div (new_width * 4)
        y(i)       == row(i) - pad_top
        dst_row_start(i) == (y(i) + pad_top) * new_width * 4 + pad_left * 4
        dst_row_end(i)   == dst_row_start(i) + (src_width - 1) * 4
        src_row_start(i) == y(i) * src_width * 4
    IN  PhotonImage(
            [i \in 1..(new_width * new_height * 4) |->
                IF /\ y(i) >= 0
                   /\ y(i) < src_height
                   /\ i - 1 >= dst_row_start(i)
                   /\ i - 1 < dst_row_end(i)
                THEN img.raw_pixels[src_row_start(i) + (i - 1 - dst_row_start(i)) + 1]
                ELSE 0],
            new_width, new_height)

\* A zero-filled (transparent) buffer of new_width * new_height * 4 bytes
\* into which source row y is copied at bytes dst_row_start..dst_row_end.
pad_img_sides(img, pad_left, pad_right, pad_top, pad_bottom) ==
    LET new_width  == img.width + pad_left + pad_right
        new_height == img.height + pad_top + pad_bottom
        src_width  == img.width
        src_height == img.height
        row(i)     == (i - 1) \div (new_width * 4)
        y(i)       == row(i) - pad_top
        dst_row_start(i) == (y(i) + pad_top) * new_width * 4 + pad_left * 4
        dst_row_end(i)   == dst_row_start(i) + src_width * 4
        src_row_start(i) == y(i) * src_width * 4
    IN  PhotonImage(
            [i \in 1..(new_width * new_height * 4) |->
                IF /\ y(i) >= 0
                   /\ y(i) < src_height
                   /\ i - 1 >= dst_row_start(i)
                   /\ i - 1 < dst_row_end(i)
                THEN img.raw_pixels[src_row_start(i) + (i - 1 - dst_row_start(i)) + 1]
                ELSE 0],
            new_width, new_height)

\* The arithmetic of pad_img_sides at the width of the code.  Widths,
\* heights and pads are u32, held here as arbitrary-precision naturals; the
\* sums and products wrap modulo 2^32 in a build without overflow checks
\* and abort in a build with them (overflow_checks), and a row slice that
\* ends past the buffer aborts in both.  pad_img_sides above gives the
\* bytes where nothing overflows.
U32Bits == 32

WrapU32(a) == BSub(a, BShl(BShr(a, U32Bits), U32Bits))

OverflowsU32(a) == BShr(a, U32Bits) # <<>>

\* dst_row_end of source row y
dst_row_end_u32(y, src_width, new_width, pad_left, pad_top) ==
    BAdd(WrapU32(BAdd(BMul(BMul(BAdd(BFromNat(y), pad_top), new_width), BFromNat(4)),
                      BMul(pad_left, BFromNat(4)))),
         WrapU32(BMul(src_width, BFromNat(4))))

pad_img_sides_checked(src_width, src_height, sum_width, sum_height, pad_left, pad_top, overflow_checks) ==
    [panics |->
        \/ /\ overflow_checks
           /\ \/ OverflowsU32(sum_width)
              \/ OverflowsU32(sum_height)
              \/ OverflowsU32(BMul(BMul(sum_width, sum_height), BFromNat(4)))
        \/ \E y \in 0..(src_height - 1) :
                BCmp(dst_row_end_u32(y, BFromNat(src_width), WrapU32(sum_width),
                                     pad_left, pad_top),
                     WrapU32(BMul(BMul(WrapU32(sum_width), WrapU32(sum_height)),
                                  BFromNat(4)))) > 0,
     width |-> WrapU32(sum_width),
     height |-> WrapU32(sum_height),
     buffer_len |-> WrapU32(BMul(BMul(WrapU32(sum_width), WrapU32(sum_height)),
                                 BFromNat(4)))]

\* new_width and new_height before wrapping
pad_img_sides_shape(src_width, src_height, pad_left, pad_right, pad_top, pad_bottom, overflow_checks) ==
    pad_img_sides_checked(src_width, src_height,
                          BAdd(BAdd(BFromNat(src_width), pad_left), pad_right),
                          BAdd(BAdd(BFromNat(src_height), pad_top), pad_bottom),
                          pad_left, pad_top, overflow_checks)

DivCeil(a, b) == (a + b - 1) \div b

pad_img_underflows(img, new_size) ==
    new_size.height < img.height \/ new_size.width < img.width

\* pad_img with both pads of an axis rounded down: an odd difference loses
\* a pixel.
pad_img_floor_both(img, new_size) ==
    LET total_pad_vertical   == new_size.height - img.height
        total_pad_horizontal == new_size.width - img.width
        pad_left   == IF total_pad_horizontal # 0 THEN total_pad_horizontal \div 2 ELSE 0
        pad_right  == IF total_pad_horizontal # 0 THEN total_pad_horizontal \div 2 ELSE 0
        pad_top    == IF total_pad_vertical # 0 THEN total_pad_vertical \div 2 ELSE 0
        pad_bottom == IF total_pad_vertical # 0 THEN total_pad_vertical \div 2 ELSE 0
    IN  pad_img_sides(img, pad_left, pad_right, pad_top, pad_bottom)

\* pad_img giving the odd pixel to the right and the bottom
pad_img_odd_pixel_trailing(img, new_size) ==
    LET total_pad_vertical   == new_size.height - img.height
        total_pad_horizontal == new_size.width - img.width
        pad_left   == IF total_pad_horizontal # 0 THEN total_pad_horizontal \div 2 ELSE 0
        pad_right  == IF total_pad_horizontal # 0 THEN DivCeil(total_pad_horizontal, 2) ELSE 0
        pad_top    == IF total_pad_vertical # 0 THEN total_pad_vertical \div 2 ELSE 0
        pad_bottom == IF total_pad_vertical # 0 THEN DivCeil(total_pad_vertical, 2) ELSE 0
    IN  pad_img_sides(img, pad_left, pad_right, pad_top, pad_bottom)

pad_img(img, new_size) ==
    LET total_pad_vertical   == new_size.height - img.height
        total_pad_horizontal == new_size.width - img.width
        pad_left   == IF total_pad_horizontal # 0 THEN DivCeil(total_pad_horizontal, 2) ELSE 0
        pad_right  == IF total_pad_horizontal # 0 THEN total_pad_horizontal \div 2 ELSE 0
        pad_top    == IF total_pad_vertical # 0 THEN DivCeil(total_pad_vertical, 2) ELSE 0
        pad_bottom == IF total_pad_vertical # 0 THEN total_pad_vertical \div 2 ELSE 0
    IN  pad_img_sides(img, pad_left, pad_right, pad_top, pad_bottom)

Abs(n) == IF n < 0 THEN -n ELSE n

\* pan_rect that pads for a pan to the left or down without cropping
pan_rect_uncropped(img_size, pan_offset) ==
    LET pan_offset_x_abs == Abs(pan_offset.x)
        pan_offset_y_abs == Abs(pan_offset.y)
        right == pan_offset.x > 0
        up    == pan_offset.y > 0
    IN  [pos_x     |-> IF right THEN img_size.width - pan_offset_x_abs ELSE img_size.width,
         neg_x     |-> 0,
         pad_left  |-> IF right THEN pan_offset_x_abs ELSE 0,
         pad_right |-> IF right THEN 0 ELSE pan_offset_x_abs,
         pos_y     |-> IF up THEN img_size.height - pan_offset_y_abs ELSE img_size.height,
         neg_y     |-> 0,
         pad_top    |-> IF up THEN pan_offset_y_abs ELSE 0,
         pad_bottom |-> IF up THEN 0 ELSE pan_offset_y_abs]

\* pan_rect padding the edge the content moves towards
pan_rect_pads_trailing(img_size, pan_offset) ==
    LET pan_offset_x_abs == Abs(pan_offset.x)
        pan_offset_y_abs == Abs(pan_offset.y)
        right == pan_offset.x > 0
        up    == pan_offset.y > 0
    IN  [pos_x     |-> IF right THEN img_size.width - pan_offset_x_abs ELSE img_size.width,
         neg_x     |-> IF right THEN 0 ELSE pan_offset_x_abs,
         pad_left  |-> IF right THEN 0 ELSE pan_offset_x_abs,
         pad_right |-> IF right THEN pan_offset_x_abs ELSE 0,
         pos_y     |-> IF up THEN img_size.height - pan_offset_y_abs ELSE img_size.height,
         neg_y     |-> IF up THEN 0 ELSE pan_offset_y_abs,
         pad_top    |-> IF up THEN 0 ELSE pan_offset_y_abs,
         pad_bottom |-> IF up THEN pan_offset_y_abs ELSE 0]

\* The crop corners and pads pan_img derives from the offset.
pan_rect(img_size, pan_offset) ==
    LET pan_offset_x_abs == Abs(pan_offset.x)
        pan_offset_y_abs == Abs(pan_offset.y)
        right == pan_offset.x > 0
        up    == pan_offset.y > 0
    IN  [pos_x     |-> IF right THEN img_size.width - pan_offset_x_abs ELSE img_size.width,
         neg_x     |-> IF right THEN 0 ELSE pan_offset_x_abs,
         pad_left  |-> IF right THEN pan_offset_x_abs ELSE 0,
         pad_right |-> IF right THEN 0 ELSE pan_offset_x_abs,
         pos_y     |-> IF up THEN img_size.height - pan_offset_y_abs ELSE img_size.height,
         neg_y     |-> IF up THEN 0 ELSE pan_offset_y_abs,
         pad_top    |-> IF up THEN pan_offset_y_abs ELSE 0,
         pad_bottom |-> IF up THEN 0 ELSE pan_offset_y_abs]

\* pan_img aborts when one of its unsigned subtractions, or fast_crop's,
\* would go below zero.
pan_img_underflows(img, panning_data) ==
    LET r == pan_rect(Size(img.width, img.height), panning_data.pan_offset)
    IN  /\ ~(panning_data.pan_offset.x = 0 /\ panning_data.pan_offset.y = 0)
        /\ \/ r.pos_x < 0
           \/ r.pos_y < 0
           \/ fast_crop_underflows(r.pos_x, r.pos_y, r.neg_x, r.neg_y)

pan_img(img, panning_data) ==
    LET r == pan_rect(Size(img.width, img.height), panning_data.pan_offset)
    IN  IF panning_data.pan_offset.x = 0 /\ panning_data.pan_offset.y = 0
        THEN img
        ELSE pad_img_sides(fast_crop(img, r.pos_x, r.pos_y, r.neg_x, r.neg_y),
                           r.pad_left, r.pad_right, r.pad_top, r.pad_bottom)

\* zoom_constant with the division by ten done on integers
zoom_constant_integer_unit(width, height, zoom_level) ==
    (Abs(zoom_level) * ((IF height > width THEN width ELSE height) \div 10)) \div 2

\* zoom_level.unsigned_abs() as f32 * zoom_level_multiplier / 2, as u32
zoom_constant(width, height, zoom_level) ==
    LET zoom_level_multiplier ==
            IF height > width
            THEN FDiv(F32Precision, FromInt(F32Precision, width), FromInt(F32Precision, 10))
            ELSE FDiv(F32Precision, FromInt(F32Precision, height), FromInt(F32Precision, 10))
    IN  AsU32(FDiv(F32Precision,
                   FMul(F32Precision, FromInt(F32Precision, Abs(zoom_level)),
                        zoom_level_multiplier),
                   FromInt(F32Precision, 2)))

F32Ten == FromInt(F32Precision, 10)

F32Two == FromInt(F32Precision, 2)

F32One == FromInt(F32Precision, 1)

\* the f32 nearest 0.8
F32Literal08 == FDiv(F32Precision, FromInt(F32Precision, 8), F32Ten)

\* The crop rectangle of the zoom-in branch, computed in f32 in the order
\* of the code; each step hands the values it has computed to the next.
\* crop_corners: x1, y1 from x0, y0, and the four `as u32` handed to
\* fast_crop.
crop_corners(width_f, height_f, crop_width, crop_height, x0, y0) ==
    [x0 |-> AsU32(x0),
     y0 |-> AsU32(y0),
     x1 |-> AsU32(FMin(FAdd(F32Precision, x0, crop_width), width_f)),
     y1 |-> AsU32(FMin(FAdd(F32Precision, y0, crop_height), height_f))]

\* center_x, center_y and x0, y0
crop_origin(width_f, height_f, crop_width, crop_height) ==
    crop_corners(width_f, height_f, crop_width, crop_height,
                 FMax(FSub(F32Precision, FDiv(F32Precision, width_f, F32Two),
                                         FDiv(F32Precision, crop_width, F32Two)),
                      FZero),
                 FMax(FSub(F32Precision, FDiv(F32Precision, height_f, F32Two),
                                         FDiv(F32Precision, crop_height, F32Two)),
                      FZero))

\* (crop_width, crop_height) = (h * aspect, h) for the h of a wide image
crop_size_wide(width_f, height_f, aspect, h) ==
    crop_origin(width_f, height_f, FMul(F32Precision, h, aspect), h)

\* crop_size_tall multiplying by the aspect where it should divide
crop_size_tall_multiplies(width_f, height_f, aspect, w) ==
    crop_origin(width_f, height_f, w, FMul(F32Precision, w, aspect))

\* (crop_width, crop_height) = (w, w / aspect) for the w of a tall image
crop_size_tall(width_f, height_f, aspect, w) ==
    crop_origin(width_f, height_f, w, FDiv(F32Precision, w, aspect))

\* crop_size taking crop_ratio for the fraction kept, not removed
crop_size_kept_fraction(width_f, height_f, aspect, base_crop_width, base_crop_height) ==
    IF FGe(aspect, F32One)
    THEN crop_size_wide(width_f, height_f, aspect, base_crop_height)
    ELSE crop_size_tall(width_f, height_f, aspect, base_crop_width)

\* the branch on aspect >= 1.0
crop_size(width_f, height_f, aspect, base_crop_width, base_crop_height) ==
    IF FGe(aspect, F32One)
    THEN crop_size_wide(width_f, height_f, aspect,
                        FSub(F32Precision, height_f, base_crop_height))
    ELSE crop_size_tall(width_f, height_f, aspect,
                        FSub(F32Precision, width_f, base_crop_width))

\* aspect, base_crop_width and base_crop_height
crop_base(width_f, height_f, crop_ratio) ==
    crop_size(width_f, height_f,
              FDiv(F32Precision, width_f, height_f),
              FMul(F32Precision, width_f, crop_ratio),
              FMul(F32Precision, height_f, crop_ratio))

\* zoom_ratio = zoom_level as f32 / 10f32 and crop_ratio = 0.8 * zoom_ratio
zoom_crop_rect(width, height, zoom_level) ==
    crop_base(FromInt(F32Precision, width), FromInt(F32Precision, height),
              FMul(F32Precision, F32Literal08,
                   FDiv(F32Precision, FromInt(F32Precision, zoom_level), F32Ten)))

\* fast_crop(img, x1 as u32, y1 as u32, x0 as u32, y0 as u32)
crop_to_rect(img, r) == fast_crop(img, r.x1, r.y1, r.x0, r.y0)

\* pad_img_sides with zoom_constant as u32 on every side
pad_all_sides(img, zoom_constant_u32) ==
    pad_img_sides(img, zoom_constant_u32, zoom_constant_u32,
                  zoom_constant_u32, zoom_constant_u32)

zoom_img(img, panning_data) ==
    IF panning_data.zoom_level > 0
    THEN crop_to_rect(img, zoom_crop_rect(img.width, img.height, panning_data.zoom_level))
    ELSE pad_all_sides(img, zoom_constant(img.width, img.height, panning_data.zoom_level))

(***************************************************************************)
(* The state: the fields of App, the main window's inner size, the event   *)
(* loop's control flow and exit flag, the clock read by Instant::now(),    *)
(* and what the last handler presented.  Option<T> is a sequence of at     *)
(* most one element.                                                       *)
(***************************************************************************)
VARIABLES
    window,                 \* App.window: None, or Some(inner size)
    img,                    \* App.img
    gif_frames,             \* App.gif_frames: Option<Vec<GifData>>
    current_frame_index,    \* App.current_frame_index
    next_frame_time,        \* App.next_frame_time: Option<Instant>
    panning_data,           \* App.panning_data
    control_flow,           \* the event loop's ControlFlow
    exited,                 \* event_loop.exit() was called
    now,                    \* the clock
    presented,              \* the buffer the handler that just ran presented
    panicked,               \* a handler aborted on an arithmetic underflow
    args,                   \* the inputs of a function applied on its own
    ret                     \* its result

vars == <<window, img, gif_frames, current_frame_index, next_frame_time,
          panning_data, control_flow, exited, now, presented, panicked,
          args, ret>>

app_vars == <<window, img, gif_frames, current_frame_index, next_frame_time,
              panning_data, control_flow, exited, now, presented, panicked>>

None == <<>>

Some(v) == <<v>>

Wait == <<"Wait">>

WaitUntil(t) == <<"WaitUntil", t>>

PhysicalPosition(px, py) == [x |-> px, y |-> py]

PanningData(panning, pan_offset, zoom_level) ==
    [panning |-> panning, pan_offset |-> pan_offset, zoom_level |-> zoom_level]

GifData(frame, delay) == [frame |-> frame, delay |-> delay]

Delay(numer, denom) == [numer |-> numer, denom |-> denom]

(***************************************************************************)
(* Bounds of the model and the inputs drawn within them.                   *)
(***************************************************************************)
MaxImgDim == 2

MaxWinDim == 1

MaxFrames == 2

MaxCursor == 1

MaxTime == 1

max_zoom_level == 10

\* The decoded pixels of frame k of a width x height source: every byte
\* non-zero, so that source bytes differ from transparent padding.
SourceImage(width, height, k) ==
    PhotonImage([i \in 1..(width * height * 4) |-> 1 + ((i - 1 + 64 * k) % 255)],
                width, height)

\* The frames GifDecoder yields: all of the canvas size, delays in whole ms
\* (frame k is shown for k - 1 ms: a zero delay is legal).
SourceFrames(width, height, n) ==
    [k \in 1..n |-> GifData(SourceImage(width, height, k - 1),
                            Delay(k - 1, 1))]

WindowSizes == {Size(w, h) : w \in 0..MaxWinDim, h \in 0..MaxWinDim}

\* Cursor positions are relative to the window's corner and go negative
\* when the captured cursor leaves it.
CursorPositions ==
    {PhysicalPosition(px, py) : px \in (-MaxCursor)..MaxCursor, py \in (-MaxCursor)..MaxCursor}

\* A scroll amount y as its sign bit and whether it is zero: 1.0, 0.0, -0.0
\* and -1.0 stand for the floats a wheel event carries.
WheelDeltas ==
    {[kind |-> k, y |-> [sign_bit |-> sb, zero |-> z]] :
        k \in {"LineDelta", "PixelDelta"}, sb \in BOOLEAN, z \in BOOLEAN}

\* App::default() under an event loop set to ControlFlow::Wait
Fresh ==
    /\ window = None
    /\ img = None
    /\ gif_frames = None
    /\ current_frame_index = 0
    /\ next_frame_time = None
    /\ panning_data = PanningData(FALSE, PhysicalPosition(0, 0), 0)
    /\ control_flow = Wait
    /\ exited = FALSE
    /\ now = 0
    /\ presented = None
    /\ panicked = FALSE

Init ==
    /\ Fresh
    /\ args = None
    /\ ret = None

Live == window # None /\ ~panicked

DelayMs(delay) == delay.numer \div delay.denom

\* resumed taking the index for the frame to show next, the second one
resumed_second_frame_next(width, height, n) ==
    /\ window = None
    /\ ~exited
    /\ window' = Some(Size(width, height))
    /\ IF n > 0
       THEN LET photon_frames == SourceFrames(width, height, n)
                first_frame == photon_frames[1]
            IN  /\ gif_frames' = Some(photon_frames)
                /\ img' = Some(first_frame.frame)
                /\ current_frame_index' = 1
                /\ next_frame_time' = Some(now + DelayMs(first_frame.delay))
                /\ control_flow' = WaitUntil(now + DelayMs(first_frame.delay))
       ELSE /\ img' = Some(SourceImage(width, height, 0))
            /\ UNCHANGED <<gif_frames, current_frame_index, next_frame_time, control_flow>>
    /\ presented' = None
    /\ UNCHANGED <<panning_data, exited, now, panicked, args, ret>>

\* resumed: load the file named on the command line and create the window;
\* n = 0 is a still image, n >= 1 a GIF of n frames.
resumed(width, height, n) ==
    /\ window = None
    /\ ~exited
    /\ window' = Some(Size(width, height))
    /\ IF n > 0
       THEN LET photon_frames == SourceFrames(width, height, n)
                first_frame == photon_frames[1]
            IN  /\ gif_frames' = Some(photon_frames)
                /\ img' = Some(first_frame.frame)
                /\ current_frame_index' = 0
                /\ next_frame_time' = Some(now + DelayMs(first_frame.delay))
                /\ control_flow' = WaitUntil(now + DelayMs(first_frame.delay))
       ELSE /\ img' = Some(SourceImage(width, height, 0))
            /\ UNCHANGED <<gif_frames, current_frame_index, next_frame_time, control_flow>>
    /\ presented' = None
    /\ UNCHANGED <<panning_data, exited, now, panicked, args, ret>>

\* gif_next_frame staying on the last frame instead of wrapping
gif_next_frame_stops_at_last(schedule_next_frame) ==
    IF gif_frames # None
    THEN LET frames == gif_frames[1]
             next_index == IF current_frame_index + 1 < Len(frames)
                           THEN current_frame_index + 1
                           ELSE current_frame_index
             t == now + DelayMs(frames[next_index + 1].delay)
         IN  /\ img' = Some(frames[current_frame_index + 1].frame)
             /\ current_frame_index' = next_index
             /\ next_frame_time' = Some(t)
             /\ control_flow' = IF schedule_next_frame THEN WaitUntil(t) ELSE control_flow
    ELSE UNCHANGED <<img, current_frame_index, next_frame_time, control_flow>>

\* gif_next_frame moving the index before it picks the frame to show
gif_next_frame_advances_first(schedule_next_frame) ==
    IF gif_frames # None
    THEN LET frames == gif_frames[1]
             next_index == (current_frame_index + 1) % Len(frames)
             t == now + DelayMs(frames[next_index + 1].delay)
         IN  /\ img' = Some(frames[next_index + 1].frame)
             /\ current_frame_index' = next_index
             /\ next_frame_time' = Some(t)
             /\ control_flow' = IF schedule_next_frame THEN WaitUntil(t) ELSE control_flow
    ELSE UNCHANGED <<img, current_frame_index, next_frame_time, control_flow>>

\* gif_next_frame taking the deadline from the delay of the frame it shows
gif_next_frame_delay_of_shown(schedule_next_frame) ==
    IF gif_frames # None
    THEN LET frames == gif_frames[1]
             next_index == (current_frame_index + 1) % Len(frames)
             t == now + DelayMs(frames[current_frame_index + 1].delay)
         IN  /\ img' = Some(frames[current_frame_index + 1].frame)
             /\ current_frame_index' = next_index
             /\ next_frame_time' = Some(t)
             /\ control_flow' = IF schedule_next_frame THEN WaitUntil(t) ELSE control_flow
    ELSE UNCHANGED <<img, current_frame_index, next_frame_time, control_flow>>

\* gif_next_frame / gif_prev_frame: what they assign, given the frames
gif_next_frame(schedule_next_frame) ==
    IF gif_frames # None
    THEN LET frames == gif_frames[1]
             next_index == (current_frame_index + 1) % Len(frames)
             t == now + DelayMs(frames[next_index + 1].delay)
         IN  /\ img' = Some(frames[current_frame_index + 1].frame)
             /\ current_frame_index' = next_index
             /\ next_frame_time' = Some(t)
             /\ control_flow' = IF schedule_next_frame THEN WaitUntil(t) ELSE control_flow
    ELSE UNCHANGED <<img, current_frame_index, next_frame_time, control_flow>>

\* gif_prev_frame wrapping from the first frame to the first frame
gif_prev_frame_wraps_to_first(schedule_next_frame) ==
    IF gif_frames # None
    THEN LET frames == gif_frames[1]
             prev_index == IF current_frame_index > 0
                           THEN current_frame_index - 1
                           ELSE 0
             t == now + DelayMs(frames[prev_index + 1].delay)
         IN  /\ img' = Some(frames[current_frame_index + 1].frame)
             /\ current_frame_index' = prev_index
             /\ next_frame_time' = Some(t)
             /\ control_flow' = IF schedule_next_frame THEN WaitUntil(t) ELSE control_flow
    ELSE UNCHANGED <<img, current_frame_index, next_frame_time, control_flow>>

gif_prev_frame(schedule_next_frame) ==
    IF gif_frames # None
    THEN LET frames == gif_frames[1]
             prev_index == IF current_frame_index > 0
                           THEN current_frame_index - 1
                           ELSE Len(frames) - 1
             t == now + DelayMs(frames[prev_index + 1].delay)
         IN  /\ img' = Some(frames[current_frame_index + 1].frame)
             /\ current_frame_index' = prev_index
             /\ next_frame_time' = Some(t)
             /\ control_flow' = IF schedule_next_frame THEN WaitUntil(t) ELSE control_flow
    ELSE UNCHANGED <<img, current_frame_index, next_frame_time, control_flow>>

\* ResumeTimeReached delivered whenever the stored deadline has passed,
\* whatever the control flow
ResumeTimeReached_while_paused ==
    /\ Live
    /\ next_frame_time # None
    /\ now >= next_frame_time[1]
    /\ gif_next_frame(TRUE)
    /\ presented' = None
    /\ UNCHANGED <<window, gif_frames, panning_data, exited, now, panicked, args, ret>>

\* new_events with StartCause::ResumeTimeReached: the deadline of
\* ControlFlow::WaitUntil has passed
ResumeTimeReached ==
    /\ Live
    /\ control_flow[1] = "WaitUntil"
    /\ now >= control_flow[2]
    /\ gif_next_frame(TRUE)
    /\ presented' = None
    /\ UNCHANGED <<window, gif_frames, panning_data, exited, now, panicked, args, ret>>

\* KeyP arming, on resume, a deadline of its own that it does not store
KeyP_arms_unstored ==
    /\ Live
    /\ control_flow' =
            IF gif_frames # None
            THEN (IF control_flow[1] = "WaitUntil" THEN Wait
                  ELSE WaitUntil(now + DelayMs(gif_frames[1][current_frame_index + 1].delay)))
            ELSE control_flow
    /\ presented' = None
    /\ UNCHANGED <<window, img, gif_frames, current_frame_index, next_frame_time,
                   panning_data, exited, now, panicked, args, ret>>

KeyP ==
    /\ Live
    /\ control_flow' =
            IF gif_frames # None
            THEN (IF control_flow[1] = "WaitUntil" THEN Wait
                  ELSE WaitUntil(next_frame_time[1]))
            ELSE control_flow
    /\ presented' = None
    /\ UNCHANGED <<window, img, gif_frames, current_frame_index, next_frame_time,
                   panning_data, exited, now, panicked, args, ret>>

\* Period stepping forward whatever the control flow
KeyPeriod_unguarded ==
    /\ Live
    /\ IF gif_frames # None
       THEN gif_next_frame(FALSE)
       ELSE UNCHANGED <<img, current_frame_index, next_frame_time, control_flow>>
    /\ presented' = None
    /\ UNCHANGED <<window, gif_frames, panning_data, exited, now, panicked, args, ret>>

KeyPeriod ==
    /\ Live
    /\ IF gif_frames # None /\ control_flow = Wait
       THEN gif_next_frame(FALSE)
       ELSE UNCHANGED <<img, current_frame_index, next_frame_time, control_flow>>
    /\ presented' = None
    /\ UNCHANGED <<window, gif_frames, panning_data, exited, now, panicked, args, ret>>

KeyComma ==
    /\ Live
    /\ IF gif_frames # None /\ control_flow = Wait
       THEN gif_prev_frame(FALSE)
       ELSE UNCHANGED <<img, current_frame_index, next_frame_time, control_flow>>
    /\ presented' = None
    /\ UNCHANGED <<window, gif_frames, panning_data, exited, now, panicked, args, ret>>

\* CloseRequested: event_loop.exit(); run_app returns and main drops the App
\* together with its window.
CloseRequested ==
    /\ Live
    /\ exited' = TRUE
    /\ window' = None
    /\ img' = None
    /\ gif_frames' = None
    /\ current_frame_index' = 0
    /\ next_frame_time' = None
    /\ panning_data' = PanningData(FALSE, PhysicalPosition(0, 0), 0)
    /\ control_flow' = Wait
    /\ presented' = None
    /\ UNCHANGED <<now, panicked, args, ret>>

\* MouseInput: only the middle button changes anything
MouseInput(pressed, button) ==
    /\ Live
    /\ panning_data' = IF button = "Middle"
                       THEN [panning_data EXCEPT !.panning = pressed]
                       ELSE panning_data
    /\ presented' = None
    /\ UNCHANGED <<window, img, gif_frames, current_frame_index, next_frame_time,
                   control_flow, exited, now, panicked, args, ret>>

\* Resized resetting the pan offset only
Resized_keeps_zoom(size) ==
    /\ Live
    /\ window' = Some(size)
    /\ panning_data' = [panning_data EXCEPT !.pan_offset = PhysicalPosition(0, 0)]
    /\ presented' = None
    /\ UNCHANGED <<img, gif_frames, current_frame_index, next_frame_time,
                   control_flow, exited, now, panicked, args, ret>>

\* Resized: the window has its new inner size when the handler runs
Resized(size) ==
    /\ Live
    /\ window' = Some(size)
    /\ panning_data' = [panning_data EXCEPT !.pan_offset = PhysicalPosition(0, 0),
                                            !.zoom_level = 0]
    /\ presented' = None
    /\ UNCHANGED <<img, gif_frames, current_frame_index, next_frame_time,
                   control_flow, exited, now, panicked, args, ret>>

\* MouseWheel: a LineDelta(_, y) zooms in when y.is_sign_positive() (which
\* holds of +0.0 too) and out otherwise; a PixelDelta does nothing.
is_sign_positive(y) == ~y.sign_bit

\* MouseWheel taking a scroll up for a scroll down
MouseWheel_reversed(delta) ==
    /\ Live
    /\ panning_data' =
            IF delta.kind # "LineDelta" THEN panning_data
            ELSE IF ~is_sign_positive(delta.y)
            THEN (IF panning_data.zoom_level < max_zoom_level
                  THEN [panning_data EXCEPT !.zoom_level = @ + 1]
                  ELSE panning_data)
            ELSE IF panning_data.zoom_level > -max_zoom_level
            THEN [panning_data EXCEPT !.zoom_level = @ - 1]
            ELSE panning_data
    /\ presented' = None
    /\ UNCHANGED <<window, img, gif_frames, current_frame_index, next_frame_time,
                   control_flow, exited, now, panicked, args, ret>>

MouseWheel(delta) ==
    /\ Live
    /\ panning_data' =
            IF delta.kind # "LineDelta" THEN panning_data
            ELSE IF is_sign_positive(delta.y)
            THEN (IF panning_data.zoom_level < max_zoom_level
                  THEN [panning_data EXCEPT !.zoom_level = @ + 1]
                  ELSE panning_data)
            ELSE IF panning_data.zoom_level > -max_zoom_level
            THEN [panning_data EXCEPT !.zoom_level = @ - 1]
            ELSE panning_data
    /\ presented' = None
    /\ UNCHANGED <<window, img, gif_frames, current_frame_index, next_frame_time,
                   control_flow, exited, now, panicked, args, ret>>

\* CursorMoved accepting an offset equal to the image dimension
CursorMoved_inclusive(position) ==
    /\ Live
    /\ panning_data' =
            IF panning_data.panning
            THEN LET offset_x == position.x - (window[1].width \div 2)
                     offset_y == position.y - (window[1].height \div 2)
                     new_x == IF Abs(panning_data.pan_offset.x + offset_x) <= img[1].width
                              THEN panning_data.pan_offset.x + offset_x
                              ELSE panning_data.pan_offset.x
                     new_y == IF Abs(panning_data.pan_offset.y + offset_y) <= img[1].height
                              THEN panning_data.pan_offset.y + offset_y
                              ELSE panning_data.pan_offset.y
                 IN  [panning_data EXCEPT !.pan_offset = PhysicalPosition(new_x, new_y)]
            ELSE panning_data
    /\ presented' = None
    /\ UNCHANGED <<window, img, gif_frames, current_frame_index, next_frame_time,
                   control_flow, exited, now, panicked, args, ret>>

\* CursorMoved testing the new offset against the image on the x axis only
CursorMoved_checks_x_only(position) ==
    /\ Live
    /\ panning_data' =
            IF panning_data.panning
            THEN LET offset_x == position.x - (window[1].width \div 2)
                     offset_y == position.y - (window[1].height \div 2)
                     new_x == IF Abs(panning_data.pan_offset.x + offset_x) < img[1].width
                              THEN panning_data.pan_offset.x + offset_x
                              ELSE panning_data.pan_offset.x
                     new_y == panning_data.pan_offset.y + offset_y
                 IN  [panning_data EXCEPT !.pan_offset = PhysicalPosition(new_x, new_y)]
            ELSE panning_data
    /\ presented' = None
    /\ UNCHANGED <<window, img, gif_frames, current_frame_index, next_frame_time,
                   control_flow, exited, now, panicked, args, ret>>

CursorMoved(position) ==
    /\ Live
    /\ panning_data' =
            IF panning_data.panning
            THEN LET offset_x == position.x - (window[1].width \div 2)
                     offset_y == position.y - (window[1].height \div 2)
                     new_x == IF Abs(panning_data.pan_offset.x + offset_x) < img[1].width
                              THEN panning_data.pan_offset.x + offset_x
                              ELSE panning_data.pan_offset.x
                     new_y == IF Abs(panning_data.pan_offset.y + offset_y) < img[1].height
                              THEN panning_data.pan_offset.y + offset_y
                              ELSE panning_data.pan_offset.y
                 IN  [panning_data EXCEPT !.pan_offset = PhysicalPosition(new_x, new_y)]
            ELSE panning_data
    /\ presented' = None
    /\ UNCHANGED <<window, img, gif_frames, current_frame_index, next_frame_time,
                   control_flow, exited, now, panicked, args, ret>>

\* middle_img zooming first whatever the zoom level
middle_img_zoom_first(start_img, pd) ==
    pan_img(zoom_img(start_img, pd), pd)

\* The image between zoom/pan and the fit: zoom then pan when zoomed out or
\* unzoomed, pan then zoom when zoomed in.
middle_img(start_img, pd) ==
    IF pd.zoom_level <= 0
    THEN pan_img(zoom_img(start_img, pd), pd)
    ELSE zoom_img(pan_img(start_img, pd), pd)

\* pan_img receives the zoomed image when zoomed out, the source otherwise
middle_img_underflows(start_img, pd) ==
    IF pd.zoom_level <= 0
    THEN pan_img_underflows(zoom_img(start_img, pd), pd)
    ELSE pan_img_underflows(start_img, pd)

\* The body of the RedrawRequested handler past the zero-size guard:
\* zoom/pan, fit, resize, letterbox.  `underflows` tells that one of the
\* unsigned subtractions on the way went below zero, `buffer` is what is
\* copied to the surface otherwise.
pad_to_window(resized_img, window_size) ==
    IF pad_img_underflows(resized_img, window_size)
    THEN [underflows |-> TRUE, buffer |-> None]
    ELSE [underflows |-> FALSE, buffer |-> Some(pad_img(resized_img, window_size))]

fit_to_window(mid, window_size) ==
    pad_to_window(
        fast_resize_photon_img(mid,
            calculate_max_buffer_size(window_size.width, window_size.height,
                                      Size(mid.width, mid.height))),
        window_size)

composite(start_img, window_size, pd) ==
    IF middle_img_underflows(start_img, pd)
    THEN [underflows |-> TRUE, buffer |-> None]
    ELSE fit_to_window(middle_img(start_img, pd), window_size)

\* buffer.copy_from_slice and buffer.present, or the abort
Present(out) ==
    /\ presented' = out.buffer
    /\ panicked' = out.underflows

\* RedrawRequested without the zero-size guard: NonZeroU32::try_from(0)
\* fails and the unwrap aborts the handler
RedrawRequested_unguarded ==
    /\ Live
    /\ IF window[1].width = 0 \/ window[1].height = 0
       THEN presented' = None /\ panicked' = TRUE
       ELSE Present(composite(img[1], window[1], panning_data))
    /\ UNCHANGED <<window, img, gif_frames, current_frame_index, next_frame_time,
                   panning_data, control_flow, exited, now, args, ret>>

RedrawRequested ==
    /\ Live
    /\ IF window[1].width = 0 \/ window[1].height = 0
       THEN presented' = None /\ panicked' = panicked
       ELSE Present(composite(img[1], window[1], panning_data))
    /\ UNCHANGED <<window, img, gif_frames, current_frame_index, next_frame_time,
                   panning_data, control_flow, exited, now, args, ret>>

\* the clock advances, up to the bound of the specification
ElapseUpTo(limit) ==
    /\ ~exited
    /\ now < limit
    /\ now' = now + 1
    /\ presented' = None
    /\ UNCHANGED <<window, img, gif_frames, current_frame_index, next_frame_time,
                   panning_data, control_flow, exited, panicked, args, ret>>

Elapse == ElapseUpTo(MaxTime)

Next ==
    \/ \E width \in 1..MaxImgDim, height \in 1..MaxImgDim, n \in 0..MaxFrames :
            resumed(width, height, n)
    \/ ResumeTimeReached
    \/ KeyP
    \/ KeyPeriod
    \/ KeyComma
    \/ CloseRequested
    \/ \E pressed \in BOOLEAN, button \in {"Left", "Middle"} : MouseInput(pressed, button)
    \/ \E size \in WindowSizes : Resized(size)
    \/ \E delta \in WheelDeltas : MouseWheel(delta)
    \/ \E position \in CursorPositions : CursorMoved(position)
    \/ RedrawRequested
    \/ Elapse

Spec == Init /\ [][Next]_vars

(***************************************************************************)
(* The functions applied on their own: the inputs are drawn in the initial *)
(* state and one step applies the function.                                *)
(***************************************************************************)
MaxFitDim == 12

MaxPanDim == 4

MaxZoomDim == 12

MaxRedrawImg == 2

MaxRedrawWin == 3

\* Sizes beyond the grid at which the f64 product lands just below an
\* integer: (window, image).
FitProbes ==
    {[window |-> Size(11, 16), img_size |-> Size(11, 15)],
     [window |-> Size(16, 11), img_size |-> Size(15, 11)],
     [window |-> Size(16, 22), img_size |-> Size(15, 22)],
     [window |-> Size(22, 16), img_size |-> Size(22, 15)]}

FitInputs ==
    {[window |-> Size(ww, wh), img_size |-> Size(iw, ih)] :
        ww \in 1..MaxFitDim, wh \in 1..MaxFitDim,
        iw \in 0..MaxFitDim, ih \in 0..MaxFitDim}
    \cup FitProbes

InitFit ==
    /\ Fresh
    /\ args \in {Some(a) : a \in FitInputs}
    /\ ret = None

CallFit ==
    /\ ret = None
    /\ ret' = Some(calculate_max_buffer_size(args[1].window.width, args[1].window.height,
                                             args[1].img_size))
    /\ UNCHANGED <<app_vars, args>>

SpecFit == InitFit /\ [][CallFit]_vars

PanOffsets(width, height) ==
    {PhysicalPosition(px, py) : px \in (1 - width)..(width - 1),
                                py \in (1 - height)..(height - 1)}

PanInputs ==
    UNION {{[img |-> SourceImage(w, h, 0),
             panning_data |-> PanningData(FALSE, o, 0)] : o \in PanOffsets(w, h)} :
           w \in 1..MaxPanDim, h \in 1..MaxPanDim}

InitPan ==
    /\ Fresh
    /\ args \in {Some(a) : a \in PanInputs}
    /\ ret = None

CallPan ==
    /\ ret = None
    /\ ret' = Some(pan_img(args[1].img, args[1].panning_data))
    /\ UNCHANGED <<app_vars, args>>

SpecPan == InitPan /\ [][CallPan]_vars

ZoomLevels == (-max_zoom_level)..max_zoom_level

ZoomInputs ==
    {[img |-> SourceImage(w, h, 0),
      panning_data |-> PanningData(FALSE, PhysicalPosition(0, 0), l)] :
        w \in 1..MaxZoomDim, h \in 1..MaxZoomDim, l \in ZoomLevels}

InitZoom ==
    /\ Fresh
    /\ args \in {Some(a) : a \in ZoomInputs}
    /\ ret = None

\* What the zoom/pan stage computes from an unpanned view: the image
\* zoom_img returns and, when it crops, the corners it hands to fast_crop;
\* the image pan_img returns; the image handed to the fit.
CallZoom ==
    /\ ret = None
    /\ ret' = Some([img |-> zoom_img(args[1].img, args[1].panning_data),
                    crop |-> IF args[1].panning_data.zoom_level > 0
                             THEN Some(zoom_crop_rect(args[1].img.width, args[1].img.height,
                                                      args[1].panning_data.zoom_level))
                             ELSE None,
                    panned |-> pan_img(args[1].img, args[1].panning_data),
                    middle |-> middle_img(args[1].img, args[1].panning_data)])
    /\ UNCHANGED <<app_vars, args>>

SpecZoom == InitZoom /\ [][CallZoom]_vars

\* A redraw from any view the handlers can leave behind: a still image, a
\* window of any size, an offset inside the image, a zoom level in range.
InitRedraw ==
    /\ \E w \in 1..MaxRedrawImg, h \in 1..MaxRedrawImg :
            /\ img = Some(SourceImage(w, h, 0))
            /\ \E o \in PanOffsets(w, h), l \in ZoomLevels :
                    panning_data = PanningData(FALSE, o, l)
    /\ window \in {Some(Size(ww, wh)) : ww \in 0..MaxRedrawWin, wh \in 0..MaxRedrawWin}
    /\ gif_frames = None
    /\ current_frame_index = 0
    /\ next_frame_time = None
    /\ control_flow = Wait
    /\ exited = FALSE
    /\ now = 0
    /\ presented = None
    /\ panicked = FALSE
    /\ args = None
    /\ ret = None

SpecRedraw == InitRedraw /\ [][RedrawRequested]_vars

MaxPadDim == 4

\* The letterbox step on its own: an image no larger than the target, and
\* the split the spec's example asks for (51 rows to share: 50 rows in 101).
PadProbes ==
    {[img |-> SourceImage(1, 50, 0), new_size |-> Size(1, 101)],
     [img |-> SourceImage(2, 1, 0), new_size |-> Size(7, 1)]}

PadInputs ==
    {[img |-> SourceImage(w, h, 0), new_size |-> Size(nw, nh)] :
        w \in 1..MaxPadDim, h \in 1..MaxPadDim,
        nw \in 1..MaxPadDim, nh \in 1..MaxPadDim}
    \cup PadProbes

InitPad ==
    /\ Fresh
    /\ args \in {Some(a) : a \in {p \in PadInputs : ~pad_img_underflows(p.img, p.new_size)}}
    /\ ret = None

CallPad ==
    /\ ret = None
    /\ ret' = Some(pad_img(args[1].img, args[1].new_size))
    /\ UNCHANGED <<app_vars, args>>

SpecPad == InitPad /\ [][CallPad]_vars

MaxAdvFrames == 4

\* The two advances on their own, from a paused animation of n frames
\* standing at any of its frames (the state n key presses leave behind);
\* args counts the calls made since.
InitAdvance ==
    /\ \E n \in 1..MaxAdvFrames, start \in 0..(MaxAdvFrames - 1) :
            /\ start < n
            /\ gif_frames = Some(SourceFrames(1, 1, n))
            /\ img = Some(SourceFrames(1, 1, n)[IF start = 0 THEN 1 ELSE start].frame)
            /\ current_frame_index = start
            /\ next_frame_time = Some(DelayMs(SourceFrames(1, 1, n)[start + 1].delay))
            /\ args = Some([start |-> start, forward |-> 0, backward |-> 0])
    /\ window = Some(Size(1, 1))
    /\ panning_data = PanningData(FALSE, PhysicalPosition(0, 0), 0)
    /\ control_flow = Wait
    /\ exited = FALSE
    /\ now = 0
    /\ presented = None
    /\ panicked = FALSE
    /\ ret = None

CallNextFrame ==
    /\ args[1].forward < Len(gif_frames[1])
    /\ gif_next_frame(FALSE)
    /\ args' = Some([args[1] EXCEPT !.forward = @ + 1])
    /\ UNCHANGED <<window, gif_frames, panning_data, exited, now, presented, panicked, ret>>

CallPrevFrame ==
    /\ args[1].backward < Len(gif_frames[1])
    /\ gif_prev_frame(FALSE)
    /\ args' = Some([args[1] EXCEPT !.backward = @ + 1])
    /\ UNCHANGED <<window, gif_frames, panning_data, exited, now, presented, panicked, ret>>

SpecAdvance == InitAdvance /\ [][CallNextFrame \/ CallPrevFrame]_vars

MaxGifFrames == 3

MaxGifTime == 3

\* The animation scheduler on its own: the handlers that read or write the
\* frames, the index, the deadline or the control flow, on a one-pixel
\* animation of up to MaxGifFrames frames.
NextGif ==
    \/ \E n \in 1..MaxGifFrames : resumed(1, 1, n)
    \/ ResumeTimeReached
    \/ KeyP
    \/ KeyPeriod
    \/ KeyComma
    \/ CloseRequested
    \/ ElapseUpTo(MaxGifTime)

SpecGif == Init /\ [][NextGif]_vars

MaxSideDim == 1

MaxSidePad == 1

\* Pad amounts: small ones, 2^30 (four bytes per pixel reach 2^32) and
\* u32::MAX.
SidePads ==
    {BFromNat(k) : k \in 0..MaxSidePad}
    \cup {BShl(<<1>>, U32Bits - 2), BSub(BShl(<<1>>, U32Bits), <<1>>)}

SideInputs ==
    {[width |-> w, height |-> h, pad_left |-> pl, pad_right |-> pr,
      pad_top |-> pt, pad_bottom |-> pb, overflow_checks |-> oc] :
        w \in 0..MaxSideDim, h \in 0..MaxSideDim,
        pl \in SidePads, pr \in SidePads, pt \in SidePads, pb \in SidePads,
        oc \in BOOLEAN}

InitSides ==
    /\ Fresh
    /\ args \in {Some(a) : a \in SideInputs}
    /\ ret = None

CallSides ==
    /\ ret = None
    /\ ret' = Some(pad_img_sides_shape(args[1].width, args[1].height,
                                       args[1].pad_left, args[1].pad_right,
                                       args[1].pad_top, args[1].pad_bottom,
                                       args[1].overflow_checks))
    /\ UNCHANGED <<app_vars, args>>

SpecSides == InitSides /\ [][CallSides]_vars

MaxMidDim == 3

\* the window the zoom/pan stage's result is fitted to
MidWindow == Size(3, 2)

\* The zoom/pan stage of the redraw on its own, for every view the handlers
\* can leave behind, followed by the fit, resize and letterbox of its
\* result.
MiddleInputs ==
    UNION {{[img |-> SourceImage(w, h, 0),
             panning_data |-> PanningData(FALSE, o, l)] :
                o \in PanOffsets(w, h), l \in ZoomLevels} :
           w \in 1..MaxMidDim, h \in 1..MaxMidDim}

InitMiddle ==
    /\ Fresh
    /\ args \in {Some(a) : a \in MiddleInputs}
    /\ ret = None

CallMiddle ==
    /\ ret = None
    /\ ret' = Some([underflows |-> middle_img_underflows(args[1].img, args[1].panning_data),
                    middle |-> middle_img(args[1].img, args[1].panning_data),
                    shown |-> composite(args[1].img, MidWindow, args[1].panning_data)])
    /\ UNCHANGED <<app_vars, args>>

SpecMiddle == InitMiddle /\ [][CallMiddle]_vars

MaxTimedFrames == 4

MaxTimedStart == 2

\* Frames whose delays are not whole milliseconds: frame k is shown for
\* 3k/2 ms.
TimedFrames(n) ==
    [k \in 1..n |-> GifData(SourceImage(1, 1, k - 1), Delay(3 * k, 2))]

\* The two advances called at any time, on a paused animation whose delays
\* have a fractional part; args counts the calls made.
InitTimed ==
    /\ \E n \in 1..MaxTimedFrames, start \in 0..(MaxTimedFrames - 1), t \in 0..MaxTimedStart :
            /\ start < n
            /\ gif_frames = Some(TimedFrames(n))
            /\ img = Some(TimedFrames(n)[IF start = 0 THEN 1 ELSE start].frame)
            /\ current_frame_index = start
            /\ next_frame_time = Some(t)
            /\ now = t
            /\ args = Some([start |-> start, forward |-> 0, backward |-> 0])
    /\ window = Some(Size(1, 1))
    /\ panning_data = PanningData(FALSE, PhysicalPosition(0, 0), 0)
    /\ control_flow = Wait
    /\ exited = FALSE
    /\ presented = None
    /\ panicked = FALSE
    /\ ret = None

SpecTimed == InitTimed /\ [][CallNextFrame \/ CallPrevFrame]_vars

MaxRowWidth == 1

MaxRows == 3

MaxRowPad == 1

\* The row tasks of pad_img_sides, one step at a time.  args holds the
\* call's arguments; ret holds the shared buffer, each task's position
\* (start, sliced, locked, copied, done), the row it sliced from the
\* source, and the image returned once the buffer has been taken back.

\* dst_row_start where every source row goes to the first destination row
row_dst_start_first_row(y, new_width, pad_left, pad_top) ==
    pad_top * new_width * 4 + pad_left * 4

row_dst_start(y, new_width, pad_left, pad_top) ==
    (y + pad_top) * new_width * 4 + pad_left * 4

row_src_start(y, src_width) == y * src_width * 4

RowInputs ==
    {[img |-> SourceImage(w, h, 0), pad_left |-> pl, pad_right |-> pr,
      pad_top |-> pt, pad_bottom |-> pb] :
        w \in 1..MaxRowWidth, h \in 1..MaxRows,
        pl \in 0..MaxRowPad, pr \in 0..MaxRowPad,
        pt \in 0..MaxRowPad, pb \in 0..MaxRowPad}

new_width_of(a) == a.img.width + a.pad_left + a.pad_right

new_height_of(a) == a.img.height + a.pad_top + a.pad_bottom

\* the zero-filled buffer behind its mutex, no task started
RowsStart(a) ==
    [buffer |-> [i \in 1..(new_width_of(a) * new_height_of(a) * 4) |-> 0],
     pc |-> [y \in 0..(a.img.height - 1) |-> "start"],
     row_data |-> [y \in 0..(a.img.height - 1) |-> <<>>],
     out |-> None]

InitRows ==
    /\ Fresh
    /\ \E a \in RowInputs :
            /\ args = Some(a)
            /\ ret = Some(RowsStart(a))

\* the tasks inside the critical section
LockHolders == {y \in DOMAIN ret[1].pc : ret[1].pc[y] \in {"locked", "copied"}}

\* row_data = src_pixels[src_row_start..src_row_end].to_vec()
RowSlice(y) ==
    /\ ret[1].pc[y] = "start"
    /\ ret' = Some([ret[1] EXCEPT
                        !.pc[y] = "sliced",
                        !.row_data[y] =
                            [k \in 1..(args[1].img.width * 4) |->
                                args[1].img.raw_pixels[row_src_start(y, args[1].img.width) + k]]])
    /\ UNCHANGED <<app_vars, args>>

\* buffer.lock(): granted when no other task holds the mutex
RowLock(y) ==
    /\ ret[1].pc[y] = "sliced"
    /\ LockHolders = {}
    /\ ret' = Some([ret[1] EXCEPT !.pc[y] = "locked"])
    /\ UNCHANGED <<app_vars, args>>

\* buffer[dst_row_start..dst_row_end].copy_from_slice(&row_data)
RowCopy(y) ==
    /\ ret[1].pc[y] = "locked"
    /\ ret' = Some([ret[1] EXCEPT
                        !.pc[y] = "copied",
                        !.buffer =
                            [i \in 1..Len(ret[1].buffer) |->
                                IF /\ i - 1 >= row_dst_start(y, new_width_of(args[1]), args[1].pad_left, args[1].pad_top)
                                   /\ i - 1 < row_dst_start(y, new_width_of(args[1]), args[1].pad_left, args[1].pad_top)
                                                + args[1].img.width * 4
                                THEN ret[1].row_data[y][i - row_dst_start(y, new_width_of(args[1]), args[1].pad_left, args[1].pad_top)]
                                ELSE ret[1].buffer[i]]])
    /\ UNCHANGED <<app_vars, args>>

\* the guard goes out of scope at the end of the closure
RowUnlock(y) ==
    /\ ret[1].pc[y] = "copied"
    /\ ret' = Some([ret[1] EXCEPT !.pc[y] = "done"])
    /\ UNCHANGED <<app_vars, args>>

\* for_each returns when every task has; Arc::try_unwrap, into_inner and
\* PhotonImage::new follow
TakeBuffer ==
    /\ ret[1].out = None
    /\ \A y \in DOMAIN ret[1].pc : ret[1].pc[y] = "done"
    /\ ret' = Some([ret[1] EXCEPT
                        !.out = Some(PhotonImage(ret[1].buffer, new_width_of(args[1]),
                                                 new_height_of(args[1])))])
    /\ UNCHANGED <<app_vars, args>>

NextRows ==
    \/ \E y \in DOMAIN ret[1].pc : RowSlice(y)
    \/ \E y \in DOMAIN ret[1].pc : RowLock(y)
    \/ \E y \in DOMAIN ret[1].pc : RowCopy(y)
    \/ \E y \in DOMAIN ret[1].pc : RowUnlock(y)
    \/ TakeBuffer

SpecRows == InitRows /\ [][NextRows]_vars

MaxPlayFrames == 4

MaxPlayTicks == 9

MaxPlayTime == 12

\* Uninterrupted playback: the load, the timer ticks and the clock, with
\* the ticks delivered since the load counted in args.
InitPlay ==
    /\ Fresh
    /\ args = Some([ticks |-> 0])
    /\ ret = None

\* new_events with StartCause::ResumeTimeReached, counted
CountedTick ==
    /\ Live
    /\ control_flow[1] = "WaitUntil"
    /\ now >= control_flow[2]
    /\ args[1].ticks < MaxPlayTicks
    /\ gif_next_frame(TRUE)
    /\ presented' = None
    /\ args' = Some([ticks |-> args[1].ticks + 1])
    /\ UNCHANGED <<window, gif_frames, panning_data, exited, now, panicked, ret>>

NextPlay ==
    \/ \E n \in 1..MaxPlayFrames : resumed(1, 1, n)
    \/ CountedTick
    \/ ElapseUpTo(MaxPlayTime)

SpecPlay == InitPlay /\ [][NextPlay]_vars

MaxLiveFrames == 5

MaxLate == 1

\* Playback without an end.  The handlers compare Instants and add
\* Durations to them, so only the distance between the clock and the
\* deadlines matters: the passing of a millisecond is taken from the stored
\* deadlines instead of being added to the clock, which keeps the clock at
\* its origin and the states finite.  A deadline is reached at most MaxLate
\* ms before its tick is delivered.
ElapseRelative ==
    /\ ~exited
    /\ next_frame_time # None
    /\ next_frame_time[1] > now - MaxLate
    /\ next_frame_time' = Some(next_frame_time[1] - 1)
    /\ control_flow' = IF control_flow[1] = "WaitUntil"
                       THEN WaitUntil(control_flow[2] - 1)
                       ELSE control_flow
    /\ presented' = None
    /\ UNCHANGED <<window, img, gif_frames, current_frame_index, panning_data,
                   exited, now, panicked, args, ret>>

NextLive ==
    \/ \E n \in 1..MaxLiveFrames : resumed(1, 1, n)
    \/ ResumeTimeReached
    \/ KeyP
    \/ KeyPeriod
    \/ KeyComma
    \/ CloseRequested
    \/ ElapseRelative

\* Time passes, and the event loop delivers StartCause::ResumeTimeReached
\* once the deadline of ControlFlow::WaitUntil is behind.
SpecLive ==
    /\ Init
    /\ [][NextLive]_vars
    /\ WF_vars(ElapseRelative)
    /\ WF_vars(ResumeTimeReached)

(***************************************************************************)
(* The properties.                                                         *)
(***************************************************************************)
Max(a, b) == IF a >= b THEN a ELSE b

\* C1: for a window of positive width and height a redraw does not abort
\* and the buffer it presents has exactly the window's width and height and
\* width * height * 4 bytes.
C1_BufferMatchesWindow ==
    /\ ~panicked
    /\ presented # None =>
            /\ presented[1].width = window[1].width
            /\ presented[1].height = window[1].height
            /\ Len(presented[1].raw_pixels) = window[1].width * window[1].height * 4

\* a redraw of a zoomed-in, panned image whose shape is not the window's
C1_Witness ==
    /\ presented # None
    /\ panning_data.zoom_level > 0
    /\ panning_data.pan_offset.x # 0
    /\ panning_data.pan_offset.y # 0
    /\ window[1].width * img[1].height # window[1].height * img[1].width

\* |ow * ih - iw * oh| for the fitted size (ow, oh) of an image (iw, ih)
AspectError(out, img_size) ==
    Abs(out.width * img_size.height - img_size.width * out.height)

\* The fit returned the window because a computed dimension was 0: the
\* ratios differ (a strictly smaller dimension was computed) and yet the
\* result is the window.
FitFellBack(window_size, img_size, out) ==
    /\ img_size.width > 0
    /\ img_size.height > 0
    /\ img_size.width * window_size.height # window_size.width * img_size.height
    /\ out = window_size

C3_FitsAndFillsOneDimension ==
    (ret # None /\ args[1].img_size.width > 0 /\ args[1].img_size.height > 0) =>
        /\ ret[1].width <= args[1].window.width
        /\ ret[1].height <= args[1].window.height
        /\ \/ ret[1].width = args[1].window.width
           \/ ret[1].height = args[1].window.height

\* a fit that is strictly smaller than the window in one dimension
C3_Witness ==
    /\ ret # None
    /\ args[1].img_size.width > 0
    /\ args[1].img_size.height > 0
    /\ ret[1].width < args[1].window.width
    /\ ret[1].height = args[1].window.height
    /\ ret[1].width > 1

\* C4: the fit returns the window when an image dimension is 0 and when
\* the dimension it computes truncates to 0 (the exact value is below 1);
\* for a window of positive dimensions it never returns a zero dimension.
C4_FallbackToWindow ==
    ret # None =>
        LET w == args[1].window
            i == args[1].img_size
        IN  /\ (i.width = 0 \/ i.height = 0) => ret[1] = w
            /\ (/\ i.width > 0 /\ i.height > 0
                /\ w.width * i.height > i.width * w.height
                /\ i.width * w.height < i.height) => ret[1] = w
            /\ (/\ i.width > 0 /\ i.height > 0
                /\ w.width * i.height < i.width * w.height
                /\ i.height * w.width < i.width) => ret[1] = w
            /\ ret[1].width > 0
            /\ ret[1].height > 0

\* a tall image in a flat window: the computed width is below 1
C4_Witness ==
    /\ ret # None
    /\ args[1].img_size.width > 0
    /\ args[1].img_size.width * args[1].window.height < args[1].img_size.height
    /\ args[1].window.width > 1
    /\ ret[1] = args[1].window

\* C5: for every offset with |x| < width and |y| < height, pan_img returns
\* an image of the input's width and height (and width * height * 4 bytes).
C5_PanKeepsDimensions ==
    ret # None =>
        /\ ret[1].width = args[1].img.width
        /\ ret[1].height = args[1].img.height
        /\ Len(ret[1].raw_pixels) = args[1].img.width * args[1].img.height * 4

\* a pan along both axes, by the largest legal amount on one of them
C5_Witness ==
    /\ ret # None
    /\ args[1].panning_data.pan_offset.x = args[1].img.width - 1
    /\ args[1].panning_data.pan_offset.x > 0
    /\ args[1].panning_data.pan_offset.y < 0

PanInsideImage ==
    img # None =>
        /\ Abs(panning_data.pan_offset.x) < img[1].width
        /\ Abs(panning_data.pan_offset.y) < img[1].height

\* What a cursor move while panning does to each axis: the offset takes the
\* delta when the sum stays inside the image, and is left as it was (not
\* clamped to the edge) when it does not.
RejectsNotClamps(position) ==
    LET offset_x == position.x - (window[1].width \div 2)
        offset_y == position.y - (window[1].height \div 2)
        old == panning_data.pan_offset
    IN  /\ panning_data'.pan_offset.x =
                IF Abs(old.x + offset_x) >= img[1].width THEN old.x ELSE old.x + offset_x
        /\ panning_data'.pan_offset.y =
                IF Abs(old.y + offset_y) >= img[1].height THEN old.y ELSE old.y + offset_y

\* C6: after every event |pan_offset.x| < image width and |pan_offset.y| <
\* image height, and a cursor delta that would break this on an axis leaves
\* that axis as it was instead of clamping it.
C6_PanOffsetInsideImage ==
    /\ []PanInsideImage
    /\ [][\A position \in CursorPositions :
            (CursorMoved(position) /\ panning_data.panning) => RejectsNotClamps(position)]_vars

\* panning, at the last offset the image allows on both axes: the next
\* delta outwards is rejected
C6_Witness ==
    /\ img # None
    /\ panning_data.panning
    /\ panning_data.pan_offset.x = img[1].width - 1
    /\ panning_data.pan_offset.x > 0
    /\ panning_data.pan_offset.y = 1 - img[1].height
    /\ panning_data.pan_offset.y < 0

\* C7: pan_img at offset (0, 0) and zoom_img at zoom level 0 return the
\* input's width, height and bytes, so that with both at zero the image
\* handed to the fit is the source image.
C7_ZeroPanZeroZoomIdentity ==
    ret # None =>
        LET a == args[1]
        IN  /\ a.panning_data.pan_offset = PhysicalPosition(0, 0) => ret[1].panned = a.img
            /\ a.panning_data.zoom_level = 0 => ret[1].img = a.img
            /\ (/\ a.panning_data.pan_offset = PhysicalPosition(0, 0)
                /\ a.panning_data.zoom_level = 0) => ret[1].middle = a.img

C7_Witness ==
    /\ ret # None
    /\ args[1].panning_data.pan_offset = PhysicalPosition(0, 0)
    /\ args[1].panning_data.zoom_level = 0
    /\ args[1].img.width > 1
    /\ args[1].img.height > 1
    /\ ret[1].middle = args[1].img

crop_area(r) == (r.x1 - r.x0) * (r.y1 - r.y0)

\* the area zoom_img adds around a width x height image at a level <= 0
padded_area(width, height, zoom_level) ==
    LET c == zoom_constant(width, height, zoom_level)
    IN  (width + 2 * c) * (height + 2 * c) - width * height

\* C8 as stated: the crop at level L + 1 (L in 1..9) is strictly smaller
\* than at L unless the crop at L is the minimum 1x1, and the padded area at
\* level L - 1 (L in -9..-1) is strictly larger than at L.
C8_StrictlyMonotone ==
    ret # None =>
        LET a == args[1]
            l == a.panning_data.zoom_level
        IN  /\ l \in 1..(max_zoom_level - 1) =>
                \/ crop_area(zoom_crop_rect(a.img.width, a.img.height, l + 1))
                        < crop_area(ret[1].crop[1])
                \/ /\ ret[1].crop[1].x1 - ret[1].crop[1].x0 = 1
                   /\ ret[1].crop[1].y1 - ret[1].crop[1].y0 = 1
            /\ l \in (1 - max_zoom_level)..(-1) =>
                padded_area(a.img.width, a.img.height, l - 1)
                    > ret[1].img.width * ret[1].img.height - a.img.width * a.img.height

\* C8, amended: the crop at level L + 1 (L in 1..9) is no larger than at L,
\* and the padded area at level L - 1 (L in -9..-1) is no smaller than at L.
C8_WeaklyMonotone ==
    ret # None =>
        LET a == args[1]
            l == a.panning_data.zoom_level
        IN  /\ l \in 1..(max_zoom_level - 1) =>
                crop_area(zoom_crop_rect(a.img.width, a.img.height, l + 1))
                    <= crop_area(ret[1].crop[1])
            /\ l \in (1 - max_zoom_level)..(-1) =>
                padded_area(a.img.width, a.img.height, l - 1)
                    >= ret[1].img.width * ret[1].img.height - a.img.width * a.img.height

\* a zoomed-in image whose crop does not shrink at the next level while
\* still larger than one pixel
C8_Witness ==
    /\ ret # None
    /\ args[1].panning_data.zoom_level \in 1..(max_zoom_level - 1)
    /\ crop_area(ret[1].crop[1]) > 1
    /\ crop_area(zoom_crop_rect(args[1].img.width, args[1].img.height,
                                args[1].panning_data.zoom_level + 1))
            = crop_area(ret[1].crop[1])

\* C9: for an image of positive dimensions and a zoom level in 1..10 the
\* crop rectangle has 0 <= x0 < x1 <= width and 0 <= y0 < y1 <= height, so
\* the crop has at least one pixel.
C9_CropRectNonEmpty ==
    (ret # None /\ ret[1].crop # None) =>
        LET r == ret[1].crop[1]
        IN  /\ 0 <= r.x0 /\ r.x0 < r.x1 /\ r.x1 <= args[1].img.width
            /\ 0 <= r.y0 /\ r.y0 < r.y1 /\ r.y1 <= args[1].img.height

ZoomLevelInRange == panning_data.zoom_level \in (-max_zoom_level)..max_zoom_level

\* C10: the zoom level is always in -10..10, and a wheel line event
\* scrolled up (down) adds (subtracts) one, except at 10 (-10) where the
\* level stays.
C10_ZoomLevelBounded ==
    /\ []ZoomLevelInRange
    /\ [][\A delta \in WheelDeltas :
            (MouseWheel(delta) /\ delta.kind = "LineDelta" /\ ~delta.y.zero) =>
                panning_data'.zoom_level =
                    IF delta.y.sign_bit
                    THEN (IF panning_data.zoom_level = -max_zoom_level
                          THEN panning_data.zoom_level
                          ELSE panning_data.zoom_level - 1)
                    ELSE (IF panning_data.zoom_level = max_zoom_level
                          THEN panning_data.zoom_level
                          ELSE panning_data.zoom_level + 1)]_vars

\* the upper limit has been reached, from where a scroll up changes nothing
C10_Witness ==
    /\ window # None
    /\ panning_data.zoom_level = max_zoom_level

\* The byte at channel ch of pixel (col, row) of a raster that shows src
\* with its corner at (left, top) and is transparent elsewhere.
PlacedByte(src, left, top, col, row, ch) ==
    IF /\ col >= left /\ col < left + src.width
       /\ row >= top /\ row < top + src.height
    THEN PixelByte(src, col - left, row - top, ch)
    ELSE 0

ShowsAt(out, src, left, top) ==
    \A row \in 0..(out.height - 1), col \in 0..(out.width - 1), ch \in 0..3 :
        PixelByte(out, col, row, ch) = PlacedByte(src, left, top, col, row, ch)

\* C11: pad_img of an image no larger than the target returns a raster of
\* the target size that shows the image behind ceil(total_h / 2) columns on
\* the left and ceil(total_v / 2) rows on top (so floor(total / 2) remain
\* on the right and below), and every byte of every padded pixel is 0.
C11_PadSplitCeilFloor ==
    ret # None =>
        LET total_h == args[1].new_size.width - args[1].img.width
            total_v == args[1].new_size.height - args[1].img.height
        IN  /\ ret[1].width = args[1].new_size.width
            /\ ret[1].height = args[1].new_size.height
            /\ Len(ret[1].raw_pixels) = ret[1].width * ret[1].height * 4
            /\ ShowsAt(ret[1], args[1].img, (total_h + 1) \div 2, (total_v + 1) \div 2)

\* the spec's example: 51 rows to share, 26 transparent rows on top, the
\* image in rows 26..75 and 25 transparent rows below
C11_Witness ==
    /\ ret # None
    /\ args[1].new_size.height - args[1].img.height = 51
    /\ \A row \in 0..25 : PixelByte(ret[1], 0, row, 3) = 0
    /\ PixelByte(ret[1], 0, 26, 3) # 0
    /\ PixelByte(ret[1], 0, 75, 3) # 0
    /\ \A row \in 76..100 : PixelByte(ret[1], 0, row, 3) = 0

ZeroWindow == window # None /\ (window[1].width = 0 \/ window[1].height = 0)

\* C12: a redraw request on a window of zero width or height presents no
\* buffer, does not abort, and leaves pan offset, zoom level, current image
\* and frame index as they were; no buffer is ever on display for such a
\* window.
C12_ZeroWindowSkipsPipeline ==
    /\ [](ZeroWindow => presented = None)
    /\ [][(ZeroWindow /\ RedrawRequested) =>
            /\ presented' = None
            /\ panicked' = panicked
            /\ UNCHANGED <<panning_data, img, gif_frames, current_frame_index,
                           next_frame_time, control_flow, window>>]_vars

\* a zero-width window over a zoomed, panned animation on its second
\* frame: the redraw request leaves this state as it is
C12_Witness ==
    /\ ZeroWindow
    /\ ~panicked
    /\ presented = None
    /\ gif_frames # None
    /\ current_frame_index = 1
    /\ panning_data.zoom_level # 0
    /\ panning_data.pan_offset.x # 0
    /\ ENABLED RedrawRequested

\* C13: n forward advances of an n-frame animation, from any index, bring
\* the index back to where it started, and one backward advance from index
\* 0 gives index n - 1.
C13_AdvanceWrapsAround ==
    /\ (args[1].forward = Len(gif_frames[1]) /\ args[1].backward = 0) =>
            current_frame_index = args[1].start
    /\ (args[1].start = 0 /\ args[1].forward = 0 /\ args[1].backward = 1) =>
            current_frame_index = Len(gif_frames[1]) - 1

\* three forward advances of a three-frame animation, back at index 0
C13_Witness ==
    /\ Len(gif_frames[1]) = 3
    /\ args[1].start = 0
    /\ args[1].forward = 3
    /\ args[1].backward = 0
    /\ current_frame_index = 0

Playing == gif_frames # None /\ control_flow[1] = "WaitUntil"

Paused == gif_frames # None /\ control_flow = Wait

\* C14: the pause key pressed while Playing leaves the scheduler Paused;
\* while Paused the control flow stays Wait until the pause key is pressed
\* again and the index moves only by a manual step; a timer tick happens
\* only while Playing, and it advances the index by one (wrapping) and arms
\* the new deadline.
C14_PauseFreezesTicks ==
    /\ [][(Playing /\ KeyP) => Paused']_vars
    /\ [][(Paused /\ gif_frames' # None /\ ~KeyP) => control_flow' = Wait]_vars
    /\ [][(Paused /\ gif_frames' # None /\ ~KeyPeriod /\ ~KeyComma) =>
                current_frame_index' = current_frame_index]_vars
    /\ [][ResumeTimeReached =>
            /\ Playing
            /\ current_frame_index' = (current_frame_index + 1) % Len(gif_frames[1])
            /\ control_flow' = WaitUntil(next_frame_time'[1])]_vars

\* paused on the second frame of a longer animation with the deadline
\* already behind: were it playing, a tick would be due
C14_Witness ==
    /\ Paused
    /\ Len(gif_frames[1]) > 1
    /\ current_frame_index = 1
    /\ now > next_frame_time[1]
    /\ ~ENABLED ResumeTimeReached

\* C15: while an animation is loaded 0 <= current_frame_index < number of
\* frames, so that gif_frames[current_frame_index] exists.
C15_FrameIndexInRange ==
    gif_frames # None =>
        /\ 0 <= current_frame_index
        /\ current_frame_index < Len(gif_frames[1])
        /\ (current_frame_index + 1) \in DOMAIN gif_frames[1]

\* a one-frame animation after its deadline, paused: ticks and manual
\* steps have left the index at 0
C15_Witness ==
    /\ Paused
    /\ Len(gif_frames[1]) = 1
    /\ current_frame_index = 0
    /\ next_frame_time[1] > 0

\* C16: every raster pad_img_sides returns, for any image and any pad
\* amounts a u32 holds, has a buffer of width * height * 4 bytes for the
\* width and height it reports.
C16_PaddedBufferLength ==
    (ret # None /\ ~ret[1].panics) =>
        BCmp(ret[1].buffer_len,
             BMul(BMul(ret[1].width, ret[1].height), BFromNat(4))) = 0

\* C17: for a window (ww, wh) and an image (iw, ih) of positive dimensions
\* where no computed dimension truncates to 0, the fit is
\* (floor(wh * iw / ih), wh) when iw / ih < ww / wh, (ww, floor(ww * ih / iw))
\* when iw / ih > ww / wh, and the window when the ratios are equal.
C17_FitIsExactFloor ==
    (/\ ret # None
     /\ args[1].img_size.width > 0
     /\ args[1].img_size.height > 0
     /\ ~FitFellBack(args[1].window, args[1].img_size, ret[1])) =>
        LET ww == args[1].window.width
            wh == args[1].window.height
            iw == args[1].img_size.width
            ih == args[1].img_size.height
        IN  /\ (iw * wh < ww * ih /\ (wh * iw) \div ih > 0) =>
                    ret[1] = Size((wh * iw) \div ih, wh)
            /\ (iw * wh > ww * ih /\ (ww * ih) \div iw > 0) =>
                    ret[1] = Size(ww, (ww * ih) \div iw)
            /\ iw * wh = ww * ih => ret[1] = Size(ww, wh)

\* Along one axis of length size panned by o, the source position shown at
\* output position c, or -1 where the output is padding: a positive o
\* keeps source [0, size - |o|) behind |o| leading pad, a negative o keeps
\* source [|o|, size) before |o| trailing pad, 0 keeps everything.
AxisSource(o, size, c) ==
    IF o > 0
    THEN (IF c < o THEN -1 ELSE c - o)
    ELSE (IF c >= size - Abs(o) THEN -1 ELSE c + Abs(o))

\* C18: pan_img treats the axes independently: on each, a positive offset
\* o keeps source range [0, size - |o|) and puts |o| transparent pixels on
\* the leading edge (left, top), a negative one keeps [|o|, size) and puts
\* them on the trailing edge (right, bottom), and a zero offset keeps the
\* full range.
C18_PanCropsAndPadsPerAxis ==
    ret # None =>
        \A row \in 0..(ret[1].height - 1), col \in 0..(ret[1].width - 1), ch \in 0..3 :
            LET sx == AxisSource(args[1].panning_data.pan_offset.x, args[1].img.width, col)
                sy == AxisSource(args[1].panning_data.pan_offset.y, args[1].img.height, row)
            IN  PixelByte(ret[1], col, row, ch) =
                    IF sx < 0 \/ sy < 0 THEN 0
                    ELSE PixelByte(args[1].img, sx, sy, ch)

\* a pan right by one and down by two: the left column and the two bottom
\* rows are transparent and the source's corner shows next to them
C18_Witness ==
    /\ ret # None
    /\ args[1].panning_data.pan_offset = PhysicalPosition(1, -2)
    /\ args[1].img.width = 3
    /\ args[1].img.height = 4
    /\ PixelByte(ret[1], 0, 0, 0) = 0
    /\ PixelByte(ret[1], 1, 0, 0) = PixelByte(args[1].img, 0, 2, 0)
    /\ PixelByte(ret[1], 1, 2, 0) = 0

Min(a, b) == IF a <= b THEN a ELSE b

\* the image is the source behind c transparent pixels on each of the four
\* sides
PadsAllSidesBy(out, src, c) ==
    /\ out.width = src.width + 2 * c
    /\ out.height = src.height + 2 * c
    /\ Len(out.raw_pixels) = out.width * out.height * 4
    /\ ShowsAt(out, src, c, c)

\* C19 as stated: for every level L < 0 zoom_img pads c transparent pixels
\* on each side, c = |L| * zoom_unit div 2 with zoom_unit = min(w, h) div 10.
C19_ZoomOutPadsIntegerUnit ==
    (ret # None /\ args[1].panning_data.zoom_level < 0) =>
        PadsAllSidesBy(ret[1].img, args[1].img,
            (Abs(args[1].panning_data.zoom_level)
                * (Min(args[1].img.width, args[1].img.height) \div 10)) \div 2)

\* C19, amended: for every level L < 0 zoom_img pads c transparent pixels
\* on each side, c = |L| * min(w, h) div 20: the tenth of the smaller side
\* is not truncated before it is multiplied.
C19_ZoomOutPadsTwentieths ==
    (ret # None /\ args[1].panning_data.zoom_level < 0) =>
        PadsAllSidesBy(ret[1].img, args[1].img,
            (Abs(args[1].panning_data.zoom_level)
                * Min(args[1].img.width, args[1].img.height)) \div 20)

\* an image smaller than ten pixels, whose integer tenth is 0, zoomed out
\* and padded all the same
C19_Witness ==
    /\ ret # None
    /\ args[1].panning_data.zoom_level = -4
    /\ args[1].img.width = 5
    /\ args[1].img.height = 7
    /\ ret[1].img.width = 7
    /\ ret[1].img.height = 9
    /\ PixelByte(ret[1].img, 0, 0, 3) = 0
    /\ PixelByte(ret[1].img, 1, 1, 3) # 0

\* |crop.width * h - w * crop.height| for the crop r of a w x h image
CropAspectError(r, width, height) ==
    Abs((r.x1 - r.x0) * height - width * (r.y1 - r.y0))

\* C20 as stated: for every image (w, h) and zoom level in 1..10 the crop
\* rectangle keeps the aspect ratio exactly, crop.width * h = w * crop.height.
C20_CropKeepsAspectExactly ==
    (ret # None /\ ret[1].crop # None) =>
        CropAspectError(ret[1].crop[1], args[1].img.width, args[1].img.height) = 0

\* C20, amended: for every image (w, h) and zoom level in 1..10 the crop
\* rectangle keeps the aspect ratio to within a pixel in each dimension,
\* |crop.width * h - w * crop.height| < w + h.
C20_CropKeepsAspectWithinAPixel ==
    (ret # None /\ ret[1].crop # None) =>
        CropAspectError(ret[1].crop[1], args[1].img.width, args[1].img.height)
            < args[1].img.width + args[1].img.height

\* a non-empty crop of a tall image whose integer sides miss the aspect
C20_Witness ==
    /\ ret # None
    /\ ret[1].crop # None
    /\ args[1].img.width < args[1].img.height
    /\ ret[1].crop[1].x1 > ret[1].crop[1].x0
    /\ ret[1].crop[1].y1 > ret[1].crop[1].y0
    /\ CropAspectError(ret[1].crop[1], args[1].img.width, args[1].img.height)
            >= args[1].img.height

\* the size the fit gives the image mid in the window
FitOf(mid, window_size) ==
    calculate_max_buffer_size(window_size.width, window_size.height,
                              Size(mid.width, mid.height))

\* out is the letterbox, in the window, of the resize of mid to its fit
LetterboxOfResizeOfFit(out, mid, window_size, fit) ==
    /\ out.width = window_size.width
    /\ out.height = window_size.height
    /\ ShowsAt(out, fast_resize_photon_img(mid, fit),
               (window_size.width - fit.width + 1) \div 2,
               (window_size.height - fit.height + 1) \div 2)

\* C21: the stage order depends only on the sign of the zoom level.  At a
\* level L <= 0 the source is padded by c = |L| * min(w, h) div 20 first and
\* panned after, so that the whole source shows at (c + x, c + y) of a
\* (w + 2c) x (h + 2c) image; at a level L > 0 the source is panned first
\* and cropped after, so that the crop rectangle of the (w, h) image cuts
\* the source shifted by (x, y).  The fit, the resize and the letterbox
\* follow on that image.
C21_ZoomSignDecidesOrder ==
    ret # None =>
        LET a == args[1]
            o == a.panning_data.pan_offset
            l == a.panning_data.zoom_level
            c == (Abs(l) * Min(a.img.width, a.img.height)) \div 20
            r == zoom_crop_rect(a.img.width, a.img.height, l)
            mid == ret[1].middle
        IN  /\ ~ret[1].underflows
            /\ l <= 0 =>
                /\ mid.width = a.img.width + 2 * c
                /\ mid.height = a.img.height + 2 * c
                /\ ShowsAt(mid, a.img, c + o.x, c + o.y)
            /\ l > 0 =>
                /\ mid.width = r.x1 - r.x0
                /\ mid.height = r.y1 - r.y0
                /\ ShowsAt(mid, a.img, o.x - r.x0, o.y - r.y0)
            /\ ~ret[1].shown.underflows
            /\ LetterboxOfResizeOfFit(ret[1].shown.buffer[1], mid, MidWindow,
                                      FitOf(mid, MidWindow))

\* a zoomed-out view panned by more than the source alone would allow to
\* keep: the source's first column is still there, moved into the padding
C21_Witness ==
    /\ ret # None
    /\ args[1].panning_data.zoom_level = -10
    /\ args[1].panning_data.pan_offset = PhysicalPosition(-1, 0)
    /\ args[1].img.width = 2
    /\ args[1].img.height = 2
    /\ ret[1].middle.width = 4
    /\ PixelByte(ret[1].middle, 0, 1, 0) = PixelByte(args[1].img, 0, 0, 0)

\* C22: an advance at index i of n frames shows frames[i], moves the index
\* to (i + 1) mod n forward or (i - 1) mod n backward, and stores the
\* deadline now + numer div denom of the frame at the new index.
C22_AdvanceShowsThenMoves ==
    [][/\ CallNextFrame =>
            /\ img' = Some(gif_frames[1][current_frame_index + 1].frame)
            /\ current_frame_index' = (current_frame_index + 1) % Len(gif_frames[1])
            /\ next_frame_time' =
                    Some(now + (gif_frames[1][current_frame_index' + 1].delay.numer
                                    \div gif_frames[1][current_frame_index' + 1].delay.denom))
       /\ CallPrevFrame =>
            /\ img' = Some(gif_frames[1][current_frame_index + 1].frame)
            /\ current_frame_index' =
                    (current_frame_index + Len(gif_frames[1]) - 1) % Len(gif_frames[1])
            /\ next_frame_time' =
                    Some(now + (gif_frames[1][current_frame_index' + 1].delay.numer
                                    \div gif_frames[1][current_frame_index' + 1].delay.denom))
      ]_vars

\* one forward advance from the second of three frames at time 2: the
\* second frame shows, the index is at the third, whose 9/2 ms count as 4
C22_Witness ==
    /\ args # None
    /\ gif_frames # None
    /\ Len(gif_frames[1]) = 3
    /\ args[1] = [start |-> 1, forward |-> 1, backward |-> 0]
    /\ now = 2
    /\ img = Some(gif_frames[1][2].frame)
    /\ current_frame_index = 2
    /\ gif_frames[1][3].delay = Delay(9, 2)
    /\ next_frame_time = Some(6)

\* C23: Period and Comma pressed while Playing leave the index, the image,
\* the stored deadline and the control flow as they were; pressed while
\* Paused they step the index forward or backward (wrapping) and leave the
\* control flow at Wait, arming no deadline.
C23_ManualStepOnlyWhilePaused ==
    /\ [][(Playing /\ (KeyPeriod \/ KeyComma)) =>
            UNCHANGED <<current_frame_index, img, next_frame_time, control_flow>>]_vars
    /\ [][(Paused /\ KeyPeriod) =>
            /\ current_frame_index' = (current_frame_index + 1) % Len(gif_frames[1])
            /\ Paused']_vars
    /\ [][(Paused /\ KeyComma) =>
            /\ current_frame_index' =
                    (current_frame_index + Len(gif_frames[1]) - 1) % Len(gif_frames[1])
            /\ Paused']_vars

\* the third frame's index reached before any time has passed: the second
\* tick is not due before 1 ms, so a manual step made while paused led here
C23_Witness ==
    /\ Paused
    /\ Len(gif_frames[1]) = 3
    /\ current_frame_index = 2
    /\ now = 0

\* C24: the pause key pressed while Playing leaves the scheduler Paused
\* with the index and the image as they were; pressed while Paused it
\* leaves the scheduler Playing with a deadline that is not earlier than
\* the time of the key press.
C24_ResumeArmsFromNow ==
    /\ [][(Playing /\ KeyP) =>
            /\ Paused'
            /\ UNCHANGED <<current_frame_index, img>>]_vars
    /\ [][(Paused /\ KeyP) =>
            /\ Playing'
            /\ control_flow'[2] >= now]_vars

\* the destination bytes of source row y
RowRange(a, y) ==
    row_dst_start(y, new_width_of(a), a.pad_left, a.pad_top)
        .. (row_dst_start(y, new_width_of(a), a.pad_left, a.pad_top) + a.img.width * 4 - 1)

\* the rows whose copy has been made
RowsCopied == {y \in DOMAIN ret[1].pc : ret[1].pc[y] \in {"copied", "done"}}

C26_SingleDeadline ==
    /\ \/ control_flow = Wait
       \/ control_flow[1] = "WaitUntil" /\ Len(control_flow) = 2
    /\ Playing => next_frame_time = Some(control_flow[2])

\* playing again after a backward step made while paused at time 0: the
\* deadline armed by the resume is the one the step stored
C26_Witness ==
    /\ Playing
    /\ Len(gif_frames[1]) = 3
    /\ current_frame_index = 2
    /\ now = 0
    /\ control_flow = WaitUntil(2)
    /\ next_frame_time = Some(2)

\* C27: a Resized event leaves the pan offset at (0, 0) and the zoom level
\* at 0 whatever they were, and leaves the panning flag, the image, the
\* frames, the frame index, the stored deadline and the control flow as
\* they were.
C27_ResizeResetsView ==
    [][(\E size \in WindowSizes : Resized(size)) =>
            /\ panning_data'.pan_offset = PhysicalPosition(0, 0)
            /\ panning_data'.zoom_level = 0
            /\ panning_data'.panning = panning_data.panning
            /\ UNCHANGED <<img, gif_frames, current_frame_index, next_frame_time,
                           control_flow>>]_vars

\* a window that no longer has the size of its image, so that it was
\* resized, with the view reset while the middle button is still held and
\* the animation still paused on its second frame
C27_Witness ==
    /\ window # None
    /\ img # None
    /\ window[1] # Size(img[1].width, img[1].height)
    /\ panning_data = PanningData(TRUE, PhysicalPosition(0, 0), 0)
    /\ Paused
    /\ current_frame_index = 1

\* the image pan_img receives in a redraw of the current state
PanInput ==
    IF panning_data.zoom_level <= 0
    THEN zoom_img(img[1], panning_data)
    ELSE img[1]

\* C28: in every reachable state the image pan_img would receive in a
\* redraw is wider than |pan_offset.x| and taller than |pan_offset.y|, none
\* of the unsigned subtractions of pan_img and fast_crop goes below zero,
\* and no redraw has aborted.
C28_PanNeverUnderflows ==
    img # None =>
        /\ PanInput.width > Abs(panning_data.pan_offset.x)
        /\ PanInput.height > Abs(panning_data.pan_offset.y)
        /\ ~pan_img_underflows(PanInput, panning_data)
        /\ ~middle_img_underflows(img[1], panning_data)
        /\ ~panicked

\* a zoomed-in view panned as far as the handler allows on both axes, and
\* presented
C28_Witness ==
    /\ img # None
    /\ img[1].width = 2
    /\ img[1].height = 2
    /\ panning_data.zoom_level > 0
    /\ panning_data.pan_offset = PhysicalPosition(1, -1)
    /\ presented # None
    /\ ~panicked

\* C29: after the load of n frames and k ticks with no pause or step in
\* between, the index is k mod n and the image is frames[(k - 1) mod n] for
\* k >= 1 and frames[0] for k = 0: the first tick shows frames[0] again.
C29_KthTickShowsKMinusOne ==
    gif_frames # None =>
        LET frames == gif_frames[1]
            k == args[1].ticks
        IN  /\ current_frame_index = k % Len(frames)
            /\ img = Some(frames[(IF k = 0 THEN 0 ELSE (k - 1) % Len(frames)) + 1].frame)
            /\ Playing

\* after the first tick of three frames the first frame is still the one
\* shown, while the index is at the second
C29_Witness ==
    /\ gif_frames # None
    /\ Len(gif_frames[1]) = 3
    /\ args[1].ticks = 1
    /\ img = Some(gif_frames[1][1].frame)
    /\ img # Some(gif_frames[1][2].frame)
    /\ current_frame_index = 1

\* frame k (from 1) of the loaded animation is the image shown
Shown(k) == gif_frames # None /\ k <= Len(gif_frames[1]) /\ img = Some(gif_frames[1][k].frame)

\* C30: every tick arms a deadline that is not behind the clock and leaves
\* the index inside the frames; and if the scheduler stays Playing from
\* some point on, every frame of the animation is shown again and again and
\* the index is at every position again and again.
C30_PlaybackNeverStalls ==
    /\ [][ResumeTimeReached =>
            /\ control_flow'[1] = "WaitUntil"
            /\ control_flow'[2] >= now
            /\ current_frame_index' < Len(gif_frames[1])]_vars
    /\ \A k \in 1..MaxLiveFrames :
            <>[]Playing =>
                /\ []<>(gif_frames # None /\ k <= Len(gif_frames[1]) => Shown(k))
                /\ []<>(gif_frames # None /\ k <= Len(gif_frames[1]) =>
                            current_frame_index = k - 1)

\* playing the longest animation, back on its first frame after the last
\* one: the wrap has happened
C30_Witness ==
    /\ Playing
    /\ Len(gif_frames[1]) = MaxLiveFrames
    /\ current_frame_index = 0
    /\ Shown(MaxLiveFrames)
    /\ next_frame_time = Some(0)
====
